---- MODULE Spec2Model ----
(***************************************************************************)
(* A model of parts of gallia (src/src/gallia), one specification per      *)
(* part:                                                                   *)
(*                                                                         *)
(*   SpecCan    FindXCP.test_can on a raw-CAN transport                    *)
(*   SpecFrame  FindXCP.pack_xcp_eth / unpack_xcp_eth on bounded inputs    *)
(*   SpecScan   FindXCP.main with a TCP or a UDP configuration: test_tcp,  *)
(*              test_eth_broadcast followed by test_udp                    *)
(*   SpecParse  utils._unravel on bounded listings                         *)
(*   SpecSkips  utils.ParseSkips.__call__                                  *)
(*   SpecXcp    SimpleTestXCP.setup and main                               *)
(*   SpecVecu   VirtualECUConfig validation and VirtualECU.main            *)
(*   SpecLoad   plugins.load_plugins / load_transport                      *)
(*   SpecRerun  Rerunner.main                                              *)
(*   SpecUds    one UDS request under the negative-response retry policy   *)
(*   SpecWrite  the write primitives: wdbi and wmba main                   *)
(*   SpecState  the session / security state of the UDS service            *)
(*   SpecRng    two randomized virtual ECUs answering the same requests    *)
(*   SpecIsotp  ISO-TP segmentation and reassembly                         *)
(*   SpecCanLive  SpecCan with the fairness of test_can's steps            *)
(*   SpecHost   utils.join_host_port / split_host_port                     *)
(*                                                                         *)
(* Bytes are numbers 0..255, byte strings are sequences of bytes, strings  *)
(* that are parsed are sequences of characters.                            *)
(***************************************************************************)
EXTENDS Integers, Sequences, FiniteSets, TLC

VARIABLES
    \* ---- FindXCP.test_can
    pc,             \* position of test_can
    can_id_start,   \* config.can_id_start
    can_id_end,     \* config.can_id_end
    can_id,         \* the loop variable of the probe loop
    addr_idle,      \* result of the idle sniff
    can_filter,     \* the filter installed on the transport's socket
    rxq,            \* receive queue of the transport's socket
    endpoints,      \* the list of (can_id, master) pairs
    transport_open, \* the raw-CAN transport is connected and not closed
    calls,          \* history: the transport calls test_can made, in order
    filtered,       \* history: ids of the frames the socket's filter rejected
    nbus,           \* history: number of frames seen on the bus so far
    \* ---- FindXCP.pack_xcp_eth / unpack_xcp_eth
    f_pc,           \* what was applied to the inputs so far
    f_data,         \* the payload given to pack_xcp_eth
    f_ctr,          \* the counter given to pack_xcp_eth
    f_wire,         \* the bytes on the wire
    f_out,          \* the result of unpack_xcp_eth
    \* ---- FindXCP.main / test_tcp / test_udp / test_eth_broadcast
    s_mode,         \* "tcp": TcpFindXCPConfig, "udp": UdpFindXCPConfig
    s_ports,        \* config.tcp_ports / udp_ports, split and converted
    s_pc,           \* position of the scan
    s_idx,          \* index of the current port in s_ports (0: none yet)
    s_socks,        \* sockets created so far; self.socket is the last one
    s_open,         \* the created sockets that were not closed
    s_endpoints,    \* endpoints of test_tcp / test_udp
    s_slaves,       \* endpoints of test_eth_broadcast
    s_log,          \* history: the socket calls of the scan, in order
    \* ---- _unravel
    l_pc,           \* what was applied to the listing so far
    l_listing,      \* the argument of _unravel, as the sequence of its characters
    l_result,       \* what _unravel returned, or that it raised
    \* ---- ParseSkips.__call__
    k_pc,           \* position of ParseSkips.__call__
    k_values,       \* the argument values: None or the entries of the option
    k_idx,          \* index of the entry the for loop handles next
    k_skip_sids,    \* the local dictionary skip_sids
    k_namespace,    \* the attribute self.dest of the namespace
    \* ---- SimpleTestXCP.setup / main
    x_pc,           \* position of SimpleTestXCP
    x_transport,    \* type of the transport that load_transport(...).connect returns
    x_can_master,   \* config.can_master
    x_can_slave,    \* config.can_slave
    x_service,      \* self.service: its class and its two ids
    x_op,           \* index of the operation main calls next
    x_log,          \* history: the operations main called, with their outcome
    \* ---- VirtualECUConfig / VirtualECU.main
    v_pc,           \* position of the virtual ECU script
    v_platform,     \* sys.platform
    v_scheme,       \* config.target.scheme
    v_kind,         \* class of the configuration: "db" or "rng"
    v_server,       \* the server main created
    v_transports,   \* the server transports main assigned to transport, in order
    v_exc,          \* an exception is propagating through the finally clause
    v_log,          \* history: the calls of setup, run and teardown, with their outcome
    \* ---- load_transport
    t_pc,           \* position of load_transport
    t_registry,     \* the entry points of the group gallia_plugins, in order
    t_target,       \* target.scheme
    t_plugin,       \* index of the plugin of the outer loop
    t_transport,    \* index of the transport of the inner loop
    t_result,       \* the class load_transport returned
    \* ---- Rerunner.main
    r_pc,           \* position of Rerunner.main
    r_db,           \* the table run_meta: id -> (script, config)
    r_id,           \* config.id
    r_command,      \* the command main instantiated: its class and its configuration
    r_returned,     \* history: what entry_point of the command returned (-1: not called)
    r_exit,         \* status of sys.exit (-1: not called)
    r_errors,       \* history: number of logger.error calls
    \* ---- UDS service: one request
    u_pc,           \* position of the service call
    u_script,       \* the responses the mock ECU gives, in order
    u_pos,          \* number of responses the ECU has given so far
    u_max_pending,  \* configured maximum of pending iterations
    u_max_retry,    \* configured retry count for busyRepeatRequest
    u_n_pending,    \* pending responses seen since the last send
    u_n_retry,      \* resends so far
    u_sent,         \* history: the PDUs the service wrote to the transport, in order
    u_receives,     \* history: number of receive attempts
    u_result,       \* outcome of the call
    u_wire,         \* history: the PDUs the transport put on the wire
    \* ---- WriteByIdentifierPrimitive.main / WMBAPrimitive.main
    w_pc,           \* position of main
    w_command,      \* "wdbi": WriteByIdentifierPrimitive, "wmba": WMBAPrimitive
    w_session,      \* config.session
    w_address,      \* config.data_identifier / config.address
    w_config_data,  \* config.data: None or bytes
    w_file,         \* config.data_file: None, an unreadable file or its content
    w_data,         \* the local variable data
    w_calls,        \* history: the calls on self.ecu, with their outcome
    w_logged,       \* history: the levels of the log records main wrote
    w_exit,         \* status of sys.exit (-1: not called)
    \* ---- UDS service: session and security state
    q_session,      \* Session State of the service instance
    q_security,     \* Security State: 0 (locked) or the unlocked level
    q_attempts,     \* counter of invalid key attempts
    q_log,          \* history: the operations on the service, with their outcome
    \* ---- vecu rng: two emulator instances
    g_config,       \* per instance: the configuration (seed) and the entropy of its process
    g_requests,     \* the ordered requests sent on every connection
    g_server,       \* per instance: the RandomUDSServer (started, rng, session)
    g_responses,    \* per instance: the responses written to its connection
    \* ---- ISO-TP segmentation and reassembly
    i_payload,      \* the payload handed to the sender
    i_frames,       \* the CAN frames on their way to the receiver, in arrival order
    i_inject,       \* 0, or the consecutive frame that was moved out of order
    i_next,         \* index of the next frame the receiver gets
    i_pc,           \* receiver: "idle", "receiving", "delivered", "FramingError"
    i_buffer,       \* receiver: bytes reassembled so far
    i_total,        \* receiver: payload length announced by the first frame
    i_expected_sn,  \* receiver: sequence number of the next consecutive frame
    i_delivered,    \* the payload handed to the receiving application (<<>>: none)
    \* ---- utils: split_host_port / join_host_port
    h_pc,           \* "idle", "start", "text", "returned", "ValueError"
    h_host,         \* the host
    h_port,         \* the port, -1 for none
    h_default,      \* default_port, -1 for None
    h_joined,       \* the text was made by join_host_port
    h_text,         \* the hostport text handed to split_host_port
    h_result        \* the pair split_host_port returned
    \* more variables

can_vars == <<pc, can_id_start, can_id_end, can_id, addr_idle, can_filter,
              rxq, endpoints, transport_open, calls, filtered, nbus>>

frame_vars == <<f_pc, f_data, f_ctr, f_wire, f_out>>

scan_vars == <<s_mode, s_ports, s_pc, s_idx, s_socks, s_open, s_endpoints,
               s_slaves, s_log>>

parse_vars == <<l_pc, l_listing, l_result>>

skips_vars == <<k_pc, k_values, k_idx, k_skip_sids, k_namespace>>

xcp_vars == <<x_pc, x_transport, x_can_master, x_can_slave, x_service, x_op, x_log>>

vecu_vars == <<v_pc, v_platform, v_scheme, v_kind, v_server, v_transports, v_exc, v_log>>

load_vars == <<t_pc, t_registry, t_target, t_plugin, t_transport, t_result>>

rerun_vars == <<r_pc, r_db, r_id, r_command, r_returned, r_exit, r_errors>>

uds_vars == <<u_pc, u_script, u_pos, u_max_pending, u_max_retry, u_n_pending,
              u_n_retry, u_sent, u_receives, u_result, u_wire>>

write_vars == <<w_pc, w_command, w_session, w_address, w_config_data, w_file, w_data, w_calls, w_logged, w_exit>>

state_vars == <<q_session, q_security, q_attempts, q_log>>

rng_vars == <<g_config, g_requests, g_server, g_responses>>

isotp_vars == <<i_payload, i_frames, i_inject, i_next, i_pc, i_buffer, i_total, i_expected_sn, i_delivered>>

host_vars == <<h_pc, h_host, h_port, h_default, h_joined, h_text, h_result>>

\* more tuples

vars == <<can_vars, frame_vars, scan_vars, parse_vars, skips_vars,
          xcp_vars>>

----------------------------------------------------------------------------
(* Bounds of the model *)

MaxCanId == 2       \* arbitration ids are 0..MaxCanId
MaxBusFrames == 2   \* frames the bus carries during one run
MaxQueue == 2       \* frames the socket queue holds

MaxPayloadLen == 2  \* length of the enumerated payloads
LongPayloadLen == 258   \* length of one long payload (length field >= 0x100)
MaxPorts == 2       \* entries of the configured port list
MaxReplies == 1     \* datagrams answering the multicast discovery

CanIds == 0..MaxCanId

(* Payloads a frame on the bus carries: empty (DLC 0), an XCP positive     *)
(* response, an XCP error packet.                                          *)
Payloads == {<<>>, <<255, 0>>, <<254, 32>>}

Frames == [id : CanIds, data : Payloads]

----------------------------------------------------------------------------
(* Program constants of test_can *)

sniff_time == 60    \* CanFindXCPConfig.sniff_time (default)
flush_time == 2     \* the second sniff window
XCP_PID_RES == 255  \* 0xFF, first byte of a positive XCP response

PROBE_PDU == <<255, 0>>

----------------------------------------------------------------------------
(* The raw-CAN transport (gallia.transports.RawCANTransport), by its        *)
(* contract: sniff(duration) -> set of observed ids, set_filter(ids,       *)
(* invert), sendto(pdu, id, timeout), recvfrom(timeout) -> (id, pdu).      *)

NoFilter == [ids |-> {}, inv |-> TRUE]

(* A frame passes the socket's filter: with inv the listed ids are          *)
(* ignored, without inv they are the only ones accepted.                   *)
FilterAccepts(flt, id) ==
    IF flt.inv THEN id \notin flt.ids ELSE id \in flt.ids

(* The ids of the frames a sniff window takes from the queue. *)
IdsOf(q) == {q[i].id : i \in 1..Len(q)}

(* An entry of the call history: the operation, its first argument (for    *)
(* recvfrom, which has none, the id being probed), its second argument or  *)
(* its result, the payload, and whether it returned (FALSE: TimeoutError). *)
Call(op, arg, res, data, ok) ==
    [op |-> op, arg |-> arg, res |-> res, data |-> data, ok |-> ok]

(* The environment: a frame appears on the bus and is queued by the socket  *)
(* when the filter accepts it and the queue has room.                      *)
BusFrame ==
    /\ transport_open
    /\ pc \notin {"done", "IndexError", "TimeoutError"}
    /\ nbus < MaxBusFrames
    /\ \E f \in Frames :
        /\ nbus' = nbus + 1
        /\ rxq' = IF FilterAccepts(can_filter, f.id) /\ Len(rxq) < MaxQueue
                  THEN Append(rxq, f) ELSE rxq
        /\ filtered' = IF FilterAccepts(can_filter, f.id)
                       THEN filtered ELSE filtered \cup {f.id}
    /\ UNCHANGED <<pc, can_id_start, can_id_end, can_id, addr_idle,
                   can_filter, endpoints, transport_open, calls>>

----------------------------------------------------------------------------
(* FindXCP.test_can *)

(* transport = await RawCANTransport.connect(target); endpoints = [] *)
Connect ==
    /\ pc = "connect"
    /\ transport_open' = TRUE
    /\ endpoints' = <<>>
    /\ pc' = "sniff"
    /\ UNCHANGED <<can_id_start, can_id_end, can_id, addr_idle, can_filter,
                   rxq, calls, nbus, filtered>>

(* addr_idle = await transport.get_idle_traffic(sniff_time) *)
SniffIdle ==
    /\ pc = "sniff"
    /\ addr_idle' = IdsOf(rxq)
    /\ rxq' = <<>>
    /\ calls' = Append(calls, Call("get_idle_traffic", sniff_time, IdsOf(rxq), <<>>, TRUE))
    /\ pc' = "set_filter"
    /\ UNCHANGED <<can_id_start, can_id_end, can_id, can_filter, endpoints,
                   transport_open, nbus, filtered>>

(* The arguments of transport.set_filter(addr_idle, inv_filter=True). *)
FilterArgs_accept(idle) == [ids |-> idle, inv |-> FALSE]
FilterArgs(idle) == [ids |-> idle, inv |-> TRUE]

(* The step that follows set_filter: the flush of the receive queue. *)
AfterSetFilter_noflush == "range"
AfterSetFilter == "flush"

SetFilter ==
    /\ pc = "set_filter"
    /\ can_filter' = FilterArgs(addr_idle)
    /\ calls' = Append(calls, Call("set_filter", FilterArgs(addr_idle).ids,
                                   FilterArgs(addr_idle).inv, <<>>, TRUE))
    /\ pc' = AfterSetFilter
    /\ UNCHANGED <<can_id_start, can_id_end, can_id, addr_idle, rxq, endpoints,
                   transport_open, nbus, filtered>>

(* await transport.get_idle_traffic(2): the result is dropped *)
Flush ==
    /\ pc = "flush"
    /\ rxq' = <<>>
    /\ calls' = Append(calls, Call("get_idle_traffic", flush_time, IdsOf(rxq), <<>>, TRUE))
    /\ pc' = "range"
    /\ UNCHANGED <<can_id_start, can_id_end, can_id, addr_idle, can_filter,
                   endpoints, transport_open, nbus, filtered>>

(* for can_id in range(can_id_start, can_id_end + 1): the first id, or the  *)
(* end of an empty range.                                                  *)
RangeFirst ==
    /\ pc = "range"
    /\ IF can_id_start < can_id_end + 1
       THEN can_id' = can_id_start /\ pc' = "send"
       ELSE can_id' = can_id /\ pc' = "done"
    /\ UNCHANGED <<can_id_start, can_id_end, addr_idle, can_filter, rxq,
                   endpoints, transport_open, calls, nbus, filtered>>

(* await transport.sendto(pdu, can_id, timeout=0.1): the frame is written *)
Sendto ==
    /\ pc = "send"
    /\ calls' = Append(calls, Call("sendto", can_id, 0, PROBE_PDU, TRUE))
    /\ pc' = "recv"
    /\ UNCHANGED <<can_id_start, can_id_end, can_id, addr_idle, can_filter,
                   rxq, endpoints, transport_open, nbus, filtered>>

(* sendto raises TimeoutError: the call is outside the try block, the       *)
(* exception leaves test_can.                                              *)
SendtoTimeout ==
    /\ pc = "send"
    /\ calls' = Append(calls, Call("sendto", can_id, 0, PROBE_PDU, FALSE))
    /\ pc' = "TimeoutError"
    /\ UNCHANGED <<can_id_start, can_id_end, can_id, addr_idle, can_filter,
                   rxq, endpoints, transport_open, nbus, filtered>>

(* What the body of the receive loop does with a frame: data[0] of an       *)
(* empty payload raises IndexError, which `except TimeoutError` does not   *)
(* catch.                                                                  *)
Classify(data) ==
    IF Len(data) = 0 THEN "IndexError"
    ELSE IF data[1] = XCP_PID_RES THEN "xcp" ELSE "other"

(* `while True`: where the loop goes after a frame was handled. *)
LoopAfterFrame_break == "next"
LoopAfterFrame == "recv"

(* master, data = await transport.recvfrom(timeout=0.1) returns a frame *)
RecvFrame ==
    /\ pc = "recv"
    /\ rxq # <<>>
    /\ LET f == Head(rxq)
           c == Classify(f.data)
       IN /\ rxq' = Tail(rxq)
          /\ calls' = Append(calls, Call("recvfrom", can_id, f.id, f.data, TRUE))
          /\ endpoints' = IF c = "xcp"
                          THEN Append(endpoints, <<can_id, f.id>>)
                          ELSE endpoints
          /\ pc' = IF c = "IndexError" THEN "IndexError" ELSE LoopAfterFrame
    /\ UNCHANGED <<can_id_start, can_id_end, can_id, addr_idle, can_filter,
                   transport_open, nbus, filtered>>

(* recvfrom raises TimeoutError: `except TimeoutError: pass` *)
RecvTimeout ==
    /\ pc = "recv"
    /\ rxq = <<>>
    /\ calls' = Append(calls, Call("recvfrom", can_id, 0, <<>>, FALSE))
    /\ pc' = "next"
    /\ UNCHANGED <<can_id_start, can_id_end, can_id, addr_idle, can_filter,
                   rxq, endpoints, transport_open, nbus, filtered>>

(* the next iteration of the for loop, or its end *)
RangeNext ==
    /\ pc = "next"
    /\ IF can_id + 1 < can_id_end + 1
       THEN can_id' = can_id + 1 /\ pc' = "send"
       ELSE can_id' = can_id /\ pc' = "done"
    /\ UNCHANGED <<can_id_start, can_id_end, addr_idle, can_filter, rxq,
                   endpoints, transport_open, calls, nbus, filtered>>

FrameIdle ==
    /\ f_pc = "idle" /\ f_data = <<>> /\ f_ctr = 0 /\ f_wire = <<>>
    /\ f_out = [length |-> 0, ctr |-> 0, payload |-> <<>>]

CanIdle ==
    /\ pc = "idle" /\ can_id_start = 0 /\ can_id_end = 0 /\ can_id = 0
    /\ addr_idle = {} /\ can_filter = NoFilter /\ rxq = <<>>
    /\ endpoints = <<>> /\ transport_open = FALSE /\ calls = <<>>
    /\ filtered = {} /\ nbus = 0

ScanIdle ==
    /\ s_mode = "none" /\ s_ports = <<>> /\ s_pc = "idle" /\ s_idx = 0
    /\ s_socks = 0 /\ s_open = {} /\ s_endpoints = <<>> /\ s_slaves = <<>>
    /\ s_log = <<>>

ParseIdle ==
    /\ l_pc = "idle"
    /\ l_listing = <<>>
    /\ l_result = [ok |-> TRUE, val |-> <<>>]

SkipsIdle ==
    /\ k_pc = "idle"
    /\ k_values = [none |-> TRUE, entries |-> <<>>]
    /\ k_idx = 0
    /\ k_skip_sids = <<>>
    /\ k_namespace = [set |-> FALSE, val |-> <<>>]

XcpIdle ==
    /\ x_pc = "idle"
    /\ x_transport = "none"
    /\ x_can_master = -1
    /\ x_can_slave = -1
    /\ x_service = [class |-> "none", master |-> -1, slave |-> -1]
    /\ x_op = 0
    /\ x_log = <<>>

VecuIdle ==
    /\ v_pc = "idle"
    /\ v_platform = "none"
    /\ v_scheme = "none"
    /\ v_kind = "none"
    /\ v_server = "none"
    /\ v_transports = <<>>
    /\ v_exc = FALSE
    /\ v_log = <<>>

LoadIdle ==
    /\ t_pc = "idle"
    /\ t_registry = <<>>
    /\ t_target = "none"
    /\ t_plugin = 0
    /\ t_transport = 0
    /\ t_result = [name |-> "none", SCHEME |-> "none"]

RerunIdle ==
    /\ r_pc = "idle"
    /\ r_db = <<>>
    /\ r_id = 0
    /\ r_command = [class |-> [module |-> <<>>, name |-> "none"], config |-> {}]
    /\ r_returned = -1
    /\ r_exit = -1
    /\ r_errors = 0

UdsIdle ==
    /\ u_pc = "idle"
    /\ u_script = <<>>
    /\ u_pos = 0
    /\ u_max_pending = 0
    /\ u_max_retry = 0
    /\ u_n_pending = 0
    /\ u_n_retry = 0
    /\ u_sent = <<>>
    /\ u_receives = 0
    /\ u_result = "none"
    /\ u_wire = <<>>

WriteIdle ==
    /\ w_pc = "idle"
    /\ w_command = "none"
    /\ w_session = 0
    /\ w_address = 0
    /\ w_config_data = [none |-> TRUE, bytes |-> <<>>]
    /\ w_file = [kind |-> "None", bytes |-> <<>>]
    /\ w_data = <<>>
    /\ w_calls = <<>>
    /\ w_logged = <<>>
    /\ w_exit = -1

StateIdle ==
    /\ q_session = 0
    /\ q_security = 0
    /\ q_attempts = 0
    /\ q_log = <<>>

RngIdle ==
    /\ g_config = <<>>
    /\ g_requests = <<>>
    /\ g_server = <<>>
    /\ g_responses = <<>>

IsotpIdle ==
    /\ i_payload = <<>>
    /\ i_frames = <<>>
    /\ i_inject = 0
    /\ i_next = 0
    /\ i_pc = "idle"
    /\ i_buffer = <<>>
    /\ i_total = 0
    /\ i_expected_sn = 0
    /\ i_delivered = <<>>

HostIdle ==
    /\ h_pc = "idle"
    /\ h_host = <<>>
    /\ h_port = -1
    /\ h_default = -1
    /\ h_joined = FALSE
    /\ h_text = <<>>
    /\ h_result = [host |-> <<>>, port |-> -1]

\* more idle

(* Every specification runs one part of the program and leaves the state  *)
(* of the other parts in their idle values.                                *)
IdleBut(part) ==
    /\ IF part = "can" THEN TRUE ELSE CanIdle
    /\ IF part = "frame" THEN TRUE ELSE FrameIdle
    /\ IF part = "scan" THEN TRUE ELSE ScanIdle
    /\ IF part = "parse" THEN TRUE ELSE ParseIdle
    /\ IF part = "skips" THEN TRUE ELSE SkipsIdle
    /\ IF part = "xcp" THEN TRUE ELSE XcpIdle
    /\ IF part = "vecu" THEN TRUE ELSE VecuIdle
    /\ IF part = "load" THEN TRUE ELSE LoadIdle
    /\ IF part = "rerun" THEN TRUE ELSE RerunIdle
    /\ IF part = "uds" THEN TRUE ELSE UdsIdle
    /\ IF part = "write" THEN TRUE ELSE WriteIdle
    /\ IF part = "state" THEN TRUE ELSE StateIdle
    /\ IF part = "rng" THEN TRUE ELSE RngIdle
    /\ IF part = "isotp" THEN TRUE ELSE IsotpIdle
    /\ IF part = "host" THEN TRUE ELSE HostIdle
    \* more parts

UnchangedBut(part) ==
    /\ IF part = "can" THEN TRUE ELSE UNCHANGED can_vars
    /\ IF part = "frame" THEN TRUE ELSE UNCHANGED frame_vars
    /\ IF part = "scan" THEN TRUE ELSE UNCHANGED scan_vars
    /\ IF part = "parse" THEN TRUE ELSE UNCHANGED parse_vars
    /\ IF part = "skips" THEN TRUE ELSE UNCHANGED skips_vars
    /\ IF part = "xcp" THEN TRUE ELSE UNCHANGED xcp_vars
    /\ IF part = "vecu" THEN TRUE ELSE UNCHANGED vecu_vars
    /\ IF part = "load" THEN TRUE ELSE UNCHANGED load_vars
    /\ IF part = "rerun" THEN TRUE ELSE UNCHANGED rerun_vars
    /\ IF part = "uds" THEN TRUE ELSE UNCHANGED uds_vars
    /\ IF part = "write" THEN TRUE ELSE UNCHANGED write_vars
    /\ IF part = "state" THEN TRUE ELSE UNCHANGED state_vars
    /\ IF part = "rng" THEN TRUE ELSE UNCHANGED rng_vars
    /\ IF part = "isotp" THEN TRUE ELSE UNCHANGED isotp_vars
    /\ IF part = "host" THEN TRUE ELSE UNCHANGED host_vars
    \* more unchanged

InitCan ==
    /\ IdleBut("can")
    /\ pc = "connect"
    /\ can_id_start \in CanIds
    /\ can_id_end \in CanIds
    /\ can_id = 0
    /\ addr_idle = {}
    /\ can_filter = NoFilter
    /\ rxq = <<>>
    /\ endpoints = <<>>
    /\ transport_open = FALSE
    /\ calls = <<>>
    /\ filtered = {}
    /\ nbus = 0

CanStep ==
    \/ BusFrame
    \/ Connect
    \/ SniffIdle
    \/ SetFilter
    \/ Flush
    \/ RangeFirst
    \/ Sendto
    \/ SendtoTimeout
    \/ RecvFrame
    \/ RecvTimeout
    \/ RangeNext

NextCan == CanStep /\ UnchangedBut("can")

SpecCan == InitCan /\ [][NextCan]_vars

----------------------------------------------------------------------------
(* Claims about FindXCP.test_can (checked under SpecCan) *)

(* Readings of the call history. *)
IsProbe(c) == c.op = "sendto" /\ c.ok
IsSendto(c) == c.op = "sendto"
IsFrame(c) == c.op = "recvfrom" /\ c.ok
IsRecvTimeout(c) == c.op = "recvfrom" /\ ~c.ok

Probes == SelectSeq(calls, IsProbe)
ReceivedFrames == SelectSeq(calls, IsFrame)

(* The probes that still await responses: sent, and the receive loop of    *)
(* their id has not ended with a timeout.                                  *)
Awaiting ==
    {i \in 1..Len(calls) :
        /\ IsProbe(calls[i])
        /\ ~\E j \in (i+1)..Len(calls) :
              IsRecvTimeout(calls[j]) /\ calls[j].arg = calls[i].arg}

RangeLen == IF can_id_end + 1 > can_id_start
            THEN can_id_end + 1 - can_id_start ELSE 0

(* C1: the probes go to can_id_start, can_id_start+1, ... in this order     *)
(* and never beyond can_id_end; a finished scan has probed every id of the *)
(* range; every sendto but the first directly follows the TimeoutError of  *)
(* the receive loop of the id before it; and at most one probe awaits      *)
(* responses at any moment.                                                *)
C1_SequentialAscendingProbes ==
    /\ \A k \in 1..Len(Probes) :
          /\ Probes[k].arg = can_id_start + k - 1
          /\ Probes[k].arg <= can_id_end
    /\ pc = "done" => Len(Probes) = RangeLen
    /\ \A i \in 1..Len(calls) :
          IsSendto(calls[i]) =>
              /\ i > 1
              /\ \/ /\ calls[i].arg = can_id_start
                    /\ calls[i-1].op = "get_idle_traffic"
                 \/ /\ IsRecvTimeout(calls[i-1])
                    /\ calls[i-1].arg = calls[i].arg - 1
    /\ Cardinality(Awaiting) <= 1

(* C1 witness: a finished scan of at least two ids with a frame received   *)
(* in the window of the first.                                             *)
C1_Witness ==
    /\ pc = "done"
    /\ Len(Probes) >= 2
    /\ \E i \in 1..Len(calls) : IsFrame(calls[i]) /\ calls[i].arg = can_id_start

(* The pairs (probed id, responder id) of the received frames whose        *)
(* payload starts with 0xFF.                                               *)
StartsWithFF(c) == Len(c.data) > 0 /\ c.data[1] = 255
XcpFrames == SelectSeq(ReceivedFrames, StartsWithFF)
ExpectedPairs == [k \in 1..Len(XcpFrames) |-> <<XcpFrames[k].arg, XcpFrames[k].res>>]

(* C2: the result is exactly the list of (probed id, responder id) of the   *)
(* frames received with a payload starting with 0xFF, and no received      *)
(* frame, whatever its payload (the empty one included), stops the scan:   *)
(* after a frame the receive loop is still receiving.                      *)
C2_ResultIsExactlyFFFrames ==
    /\ endpoints = ExpectedPairs
    /\ (Len(calls) > 0 /\ IsFrame(calls[Len(calls)])) => pc = "recv"

(* C3: before any probe is sent the history starts with the sniff of       *)
(* sniff_time seconds, the installation of the inverted filter with        *)
(* exactly the ids that sniff observed, and the second sniff window.       *)
C3_SniffFilterFlushBeforeProbe ==
    \A i \in 1..Len(calls) :
        IsSendto(calls[i]) =>
            /\ i > 3
            /\ calls[1].op = "get_idle_traffic" /\ calls[1].arg = sniff_time
            /\ calls[2].op = "set_filter"
            /\ calls[2].arg = calls[1].res
            /\ calls[2].res = TRUE
            /\ can_filter = [ids |-> calls[1].res, inv |-> TRUE]
            /\ calls[3].op = "get_idle_traffic" /\ calls[3].arg = flush_time

(* C3 witness: a probe was sent after a sniff that observed some id. *)
C3_Witness ==
    /\ Len(Probes) > 0
    /\ calls[1].op = "get_idle_traffic" /\ calls[1].res # {}

(* C4: once the inverted filter is installed, no id observed in the idle   *)
(* sniff is the master id of a recorded endpoint.                          *)
C4_NoIdleIdAsMaster ==
    pc \notin {"connect", "sniff", "set_filter"} =>
        \A k \in 1..Len(endpoints) : endpoints[k][2] \notin addr_idle

(* C4 witness: a frame with an idle id arrived after the filter was        *)
(* installed and a scan of a non-empty range finished.                     *)
C4_Witness ==
    /\ pc = "done"
    /\ Len(Probes) > 0
    /\ filtered \cap addr_idle # {}

----------------------------------------------------------------------------
(* XCP-over-Ethernet framing: FindXCP.pack_xcp_eth / unpack_xcp_eth *)

(* struct "<H": an unsigned 16-bit integer, least significant byte first. *)
U16LE_bigendian(n) == <<(n \div 256) % 256, n % 256>>
U16LE(n) == <<n % 256, (n \div 256) % 256>>

(* The value of the two bytes b at offset o (0-based), read as "<H". *)
ReadU16LE(b, o) == b[o + 1] + 256 * b[o + 2]

(* pack_xcp_eth(data, ctr): struct.pack("<HH", len(data), ctr) + data.     *)
(* struct.pack raises for a value outside 0..65535; the inputs stay in it. *)
pack_xcp_eth(data, ctr) == U16LE(Len(data)) \o U16LE(ctr) \o data

(* unpack_xcp_eth(data): (length, ctr) = struct.unpack_from("<HH", data),   *)
(* the result is (length, ctr, data[4:]). unpack_from raises struct.error  *)
(* when data holds fewer than 4 bytes (UnpackableLen).                     *)
UnpackableLen(data) == Len(data) >= 4

unpack_xcp_eth(data) ==
    [length |-> ReadU16LE(data, 0), ctr |-> ReadU16LE(data, 2),
     payload |-> SubSeq(data, 5, Len(data))]

(* The inputs: every payload of up to MaxPayloadLen bytes over a few byte  *)
(* values, one long payload, and counters at the edges of both bytes.     *)
SampleBytes == {0, 254, 255}
SeqsUpTo(S, n) == UNION {[1..k -> S] : k \in 0..n}
SamplePayloads ==
    SeqsUpTo(SampleBytes, MaxPayloadLen) \cup {[i \in 1..LongPayloadLen |-> 255]}
SampleCounters == {0, 1, 255, 256, 65535}

(* What a peer puts on the wire: a header announcing `length` and the      *)
(* counter, then the payload; the peer, not this program, picks `length`.  *)
PeerFrame(length, ctr, payload) ==
    <<length % 256, (length \div 256) % 256, ctr % 256, (ctr \div 256) % 256>>
        \o payload

NoResult == [length |-> 0, ctr |-> 0, payload |-> <<>>]

(* data = pack_xcp_eth(f_data, f_ctr) *)
Pack ==
    /\ f_pc = "input"
    /\ f_wire' = pack_xcp_eth(f_data, f_ctr)
    /\ f_pc' = "packed"
    /\ UNCHANGED <<f_data, f_ctr, f_out>>

(* unpack_xcp_eth applied to what pack_xcp_eth produced *)
UnpackPacked ==
    /\ f_pc = "packed"
    /\ UnpackableLen(f_wire)
    /\ f_out' = unpack_xcp_eth(f_wire)
    /\ f_pc' = "unpacked"
    /\ UNCHANGED <<f_data, f_ctr, f_wire>>

(* socket.recv(1024) returns what a peer sent: a frame whose header        *)
(* announces any length, or only the first n < 4 bytes of one.             *)
Receive ==
    /\ f_pc = "input"
    /\ Len(f_data) <= MaxPayloadLen
    /\ \/ \E length \in 0..(MaxPayloadLen + 1) :
             f_wire' = PeerFrame(length, f_ctr, f_data)
       \/ \E n \in 0..3 :
             f_wire' = SubSeq(PeerFrame(Len(f_data), f_ctr, f_data), 1, n)
    /\ f_pc' = "received"
    /\ UNCHANGED <<f_data, f_ctr, f_out>>

(* unpack_xcp_eth applied to a received frame *)
UnpackReceived ==
    /\ f_pc = "received"
    /\ UnpackableLen(f_wire)
    /\ f_out' = unpack_xcp_eth(f_wire)
    /\ f_pc' = "parsed"
    /\ UNCHANGED <<f_data, f_ctr, f_wire>>

(* unpack_xcp_eth raises struct.error on fewer than 4 bytes *)
UnpackShort ==
    /\ f_pc = "received"
    /\ ~UnpackableLen(f_wire)
    /\ f_pc' = "struct.error"
    /\ UNCHANGED <<f_data, f_ctr, f_wire, f_out>>

InitFrame ==
    /\ IdleBut("frame")
    /\ f_pc = "input"
    /\ f_data \in SamplePayloads
    /\ f_ctr \in SampleCounters
    /\ f_wire = <<>>
    /\ f_out = NoResult

FrameStep ==
    \/ Pack
    \/ UnpackPacked
    \/ Receive
    \/ UnpackReceived
    \/ UnpackShort

NextFrame == FrameStep /\ UnchangedBut("frame")

SpecFrame == InitFrame /\ [][NextFrame]_vars

----------------------------------------------------------------------------
(* Claims about the framing (checked under SpecFrame) *)

(* C5: pack_xcp_eth(d, c) is len(d) as uint16 little-endian, c as uint16   *)
(* little-endian, then d; and unpacking it gives back (len(d), c, d).      *)
C5_PackLayoutAndRoundTrip ==
    /\ f_pc \in {"packed", "unpacked"} =>
          /\ Len(f_wire) = 4 + Len(f_data)
          /\ f_wire[1] = Len(f_data) % 256
          /\ f_wire[2] = Len(f_data) \div 256
          /\ f_wire[3] = f_ctr % 256
          /\ f_wire[4] = f_ctr \div 256
          /\ \A i \in 1..Len(f_data) : f_wire[4 + i] = f_data[i]
    /\ f_pc = "unpacked" =>
          f_out = [length |-> Len(f_data), ctr |-> f_ctr, payload |-> f_data]

(* C5 witness: a round trip of a payload and a counter that both need the  *)
(* high byte of their header field.                                        *)
C5_Witness ==
    /\ f_pc = "unpacked"
    /\ Len(f_data) > 255
    /\ f_ctr > 255
    /\ f_out.payload = f_data

(* C6: the payload unpack_xcp_eth returns for a received frame has exactly *)
(* the number of bytes the header's length field announces.                *)
C6_PayloadHasAnnouncedLength ==
    f_pc = "parsed" => Len(f_out.payload) = f_out.length

----------------------------------------------------------------------------
(* The port scans: FindXCP.main, test_tcp, test_udp, xcp_disconnect,       *)
(* test_eth_broadcast                                                      *)

CONNECT_PDU == <<255, 0>>       \* data = bytes([0xFF, 0x00])
DISCONNECT_PDU == <<254, 0>>    \* bytes([0xFE, 0x00])
DISCOVER_PDU == <<250, 1>>      \* xcp_discover = bytes([0xFA, 0x01])
MULTICAST_GROUP == <<"239.255.0.0", 5556>>

(* The ports a configuration may list and the hosts that may answer the    *)
(* multicast discovery.                                                    *)
SamplePorts == {5555, 5556}
SampleHosts == {"192.0.2.1", "192.0.2.2"}

(* tcp_ports.split(",") never is the empty list. *)
PortLists == UNION {[1..k -> SamplePorts] : k \in 1..MaxPorts}

(* What socket.recv(1024) may return: nothing (a closed TCP connection, an *)
(* empty datagram), fewer bytes than a header, a header alone, a positive  *)
(* response, an error packet, and a frame whose header announces no        *)
(* payload but is followed by one.                                         *)
Responses ==
    {<<>>, <<1, 0, 0>>,
     PeerFrame(0, 0, <<>>),
     PeerFrame(2, 0, <<255, 0>>),
     PeerFrame(2, 0, <<254, 32>>),
     PeerFrame(0, 0, <<255>>)}

(* if len(data_ret) > 0 and data_ret[0] == 0xFF *)
IsXcpSlave_anydata(data_ret) == Len(data_ret) > 0
IsXcpSlave(data_ret) == Len(data_ret) > 0 /\ data_ret[1] = 255

(* An entry of the scan's history: the call, the index of the port entry   *)
(* it belongs to (0: the multicast discovery), the socket, the bytes sent  *)
(* or received, and whether the call returned (FALSE: it raised).          *)
Ev(op, idx, sock, data, ok) ==
    [op |-> op, idx |-> idx, sock |-> sock, data |-> data, ok |-> ok]

Log(e) == s_log' = Append(s_log, e)

(* main: the branch taken for the configuration *)
Main ==
    /\ s_pc = "main"
    /\ s_pc' = IF s_mode = "tcp" THEN "tcp_loop" ELSE "bcast"
    /\ UNCHANGED <<s_mode, s_ports, s_idx, s_socks, s_open, s_endpoints,
                   s_slaves, s_log>>

(* ---- test_tcp *)

(* for port in ...: self.socket = socket.socket(AF_INET, SOCK_STREAM) *)
TcpSocket ==
    /\ s_pc = "tcp_loop"
    /\ s_idx < Len(s_ports)
    /\ s_idx' = s_idx + 1
    /\ s_socks' = s_socks + 1
    /\ s_open' = s_open \cup {s_socks + 1}
    /\ Log(Ev("socket", s_idx + 1, s_socks + 1, <<>>, TRUE))
    /\ s_pc' = "tcp_connect"
    /\ UNCHANGED <<s_mode, s_ports, s_endpoints, s_slaves>>

(* the for loop is exhausted: logger.result("Finished; ...") *)
TcpFinished ==
    /\ s_pc = "tcp_loop"
    /\ s_idx = Len(s_ports)
    /\ s_pc' = "done"
    /\ UNCHANGED <<s_mode, s_ports, s_idx, s_socks, s_open, s_endpoints,
                   s_slaves, s_log>>

(* self.socket.connect(server) *)
TcpConnect ==
    /\ s_pc = "tcp_connect"
    /\ Log(Ev("connect", s_idx, s_socks, <<>>, TRUE))
    /\ s_pc' = "tcp_send"
    /\ UNCHANGED <<s_mode, s_ports, s_idx, s_socks, s_open, s_endpoints,
                   s_slaves>>

(* connect raises: except Exception: log; continue *)
TcpConnectFails ==
    /\ s_pc = "tcp_connect"
    /\ Log(Ev("connect", s_idx, s_socks, <<>>, FALSE))
    /\ s_pc' = "tcp_loop"
    /\ UNCHANGED <<s_mode, s_ports, s_idx, s_socks, s_open, s_endpoints,
                   s_slaves>>

(* self.socket.send(self.pack_xcp_eth(data)) *)
TcpSend ==
    /\ s_pc = "tcp_send"
    /\ Log(Ev("send", s_idx, s_socks, pack_xcp_eth(CONNECT_PDU, 0), TRUE))
    /\ s_pc' = "tcp_recv"
    /\ UNCHANGED <<s_mode, s_ports, s_idx, s_socks, s_open, s_endpoints,
                   s_slaves>>

(* send raises: except Exception: log; continue *)
TcpSendFails ==
    /\ s_pc = "tcp_send"
    /\ Log(Ev("send", s_idx, s_socks, pack_xcp_eth(CONNECT_PDU, 0), FALSE))
    /\ s_pc' = "tcp_loop"
    /\ UNCHANGED <<s_mode, s_ports, s_idx, s_socks, s_open, s_endpoints,
                   s_slaves>>

(* Where test_tcp goes after the response was classified: on to            *)
(* xcp_disconnect and close.                                               *)
TcpAfterClassify_continue == "tcp_loop"
TcpAfterClassify == "tcp_disconnect"

(* _, _, data_ret = self.unpack_xcp_eth(self.socket.recv(1024)) and the    *)
(* classification; struct.error of a short response is caught: continue    *)
TcpRecv ==
    /\ s_pc = "tcp_recv"
    /\ \E resp \in Responses :
        /\ Log(Ev("recv", s_idx, s_socks, resp, TRUE))
        /\ IF UnpackableLen(resp)
           THEN /\ s_endpoints' =
                     IF IsXcpSlave(unpack_xcp_eth(resp).payload)
                     THEN Append(s_endpoints, s_ports[s_idx])
                     ELSE s_endpoints
                /\ s_pc' = TcpAfterClassify
           ELSE /\ s_endpoints' = s_endpoints
                /\ s_pc' = "tcp_loop"
    /\ UNCHANGED <<s_mode, s_ports, s_idx, s_socks, s_open, s_slaves>>

(* recv raises (timeout, reset): except Exception: log; continue *)
TcpRecvFails ==
    /\ s_pc = "tcp_recv"
    /\ Log(Ev("recv", s_idx, s_socks, <<>>, FALSE))
    /\ s_pc' = "tcp_loop"
    /\ UNCHANGED <<s_mode, s_ports, s_idx, s_socks, s_open, s_endpoints,
                   s_slaves>>

(* ---- xcp_disconnect(server); self.socket.close(), in both scans *)

(* xcp_disconnect: sendto(pack_xcp_eth(bytes([0xFE, 0x00]), 1), server),   *)
(* recv(1024); whatever they raise is swallowed.                           *)
XcpDisconnect ==
    /\ s_pc \in {"tcp_disconnect", "udp_disconnect"}
    /\ \E sent \in BOOLEAN :
          Log(Ev("sendto", s_idx, s_socks, pack_xcp_eth(DISCONNECT_PDU, 1), sent))
    /\ s_pc' = IF s_pc = "tcp_disconnect" THEN "tcp_close" ELSE "udp_close"
    /\ UNCHANGED <<s_mode, s_ports, s_idx, s_socks, s_open, s_endpoints,
                   s_slaves>>

(* self.socket.close() *)
SocketClose ==
    /\ s_pc \in {"tcp_close", "udp_close"}
    /\ s_open' = s_open \ {s_socks}
    /\ Log(Ev("close", s_idx, s_socks, <<>>, TRUE))
    /\ s_pc' = IF s_pc = "tcp_close" THEN "tcp_loop" ELSE "udp_loop"
    /\ UNCHANGED <<s_mode, s_ports, s_idx, s_socks, s_endpoints, s_slaves>>

(* ---- test_udp *)

(* for port in ...: self.socket = socket.socket(AF_INET, SOCK_DGRAM) *)
UdpSocket ==
    /\ s_pc = "udp_loop"
    /\ s_idx < Len(s_ports)
    /\ s_idx' = s_idx + 1
    /\ s_socks' = s_socks + 1
    /\ s_open' = s_open \cup {s_socks + 1}
    /\ Log(Ev("socket", s_idx + 1, s_socks + 1, <<>>, TRUE))
    /\ s_pc' = "udp_send"
    /\ UNCHANGED <<s_mode, s_ports, s_endpoints, s_slaves>>

UdpFinished ==
    /\ s_pc = "udp_loop"
    /\ s_idx = Len(s_ports)
    /\ s_pc' = "done"
    /\ UNCHANGED <<s_mode, s_ports, s_idx, s_socks, s_open, s_endpoints,
                   s_slaves, s_log>>

(* self.socket.sendto(self.pack_xcp_eth(data), server) *)
UdpSendto ==
    /\ s_pc = "udp_send"
    /\ Log(Ev("sendto", s_idx, s_socks, pack_xcp_eth(CONNECT_PDU, 0), TRUE))
    /\ s_pc' = "udp_recv"
    /\ UNCHANGED <<s_mode, s_ports, s_idx, s_socks, s_open, s_endpoints,
                   s_slaves>>

(* sendto raises OSError (no route, ...): the call is outside the try      *)
(* block, the exception leaves test_udp.                                   *)
UdpSendtoFails ==
    /\ s_pc = "udp_send"
    /\ Log(Ev("sendto", s_idx, s_socks, pack_xcp_eth(CONNECT_PDU, 0), FALSE))
    /\ s_pc' = "aborted"
    /\ UNCHANGED <<s_mode, s_ports, s_idx, s_socks, s_open, s_endpoints,
                   s_slaves>>

(* recv and the classification; struct.error of a short datagram is not a  *)
(* TimeoutError: it leaves test_udp.                                       *)
UdpRecv ==
    /\ s_pc = "udp_recv"
    /\ \E resp \in Responses :
        /\ Log(Ev("recv", s_idx, s_socks, resp, TRUE))
        /\ IF UnpackableLen(resp)
           THEN /\ s_endpoints' =
                     IF IsXcpSlave(unpack_xcp_eth(resp).payload)
                     THEN Append(s_endpoints, s_ports[s_idx])
                     ELSE s_endpoints
                /\ s_pc' = "udp_disconnect"
           ELSE /\ s_endpoints' = s_endpoints
                /\ s_pc' = "aborted"
    /\ UNCHANGED <<s_mode, s_ports, s_idx, s_socks, s_open, s_slaves>>

(* except TimeoutError: log *)
UdpRecvTimeout ==
    /\ s_pc = "udp_recv"
    /\ Log(Ev("recv", s_idx, s_socks, <<>>, FALSE))
    /\ s_pc' = "udp_disconnect"
    /\ UNCHANGED <<s_mode, s_ports, s_idx, s_socks, s_open, s_endpoints,
                   s_slaves>>

(* ---- test_eth_broadcast *)

(* The first socket: connect((xcp_ip, 5555)), getsockname, close. *)
BcastLocalAddr ==
    /\ s_pc = "bcast"
    /\ s_socks' = s_socks + 1
    /\ s_log' = s_log \o <<Ev("socket", 0, s_socks + 1, <<>>, TRUE),
                           Ev("connect", 0, s_socks + 1, <<>>, TRUE),
                           Ev("close", 0, s_socks + 1, <<>>, TRUE)>>
    /\ s_pc' = "bcast_send"
    /\ UNCHANGED <<s_mode, s_ports, s_idx, s_open, s_endpoints, s_slaves>>

(* connect raises (no route to xcp_ip): the exception leaves main *)
BcastLocalAddrFails ==
    /\ s_pc = "bcast"
    /\ s_socks' = s_socks + 1
    /\ s_open' = s_open \cup {s_socks + 1}
    /\ s_log' = s_log \o <<Ev("socket", 0, s_socks + 1, <<>>, TRUE),
                           Ev("connect", 0, s_socks + 1, <<>>, FALSE)>>
    /\ s_pc' = "aborted"
    /\ UNCHANGED <<s_mode, s_ports, s_idx, s_endpoints, s_slaves>>

(* The second socket, its options, endpoints = [] and                      *)
(* sendto(pack_xcp_eth(xcp_discover), multicast_group).                    *)
BcastSendto ==
    /\ s_pc = "bcast_send"
    /\ s_socks' = s_socks + 1
    /\ s_open' = s_open \cup {s_socks + 1}
    /\ s_slaves' = <<>>
    /\ \E sent \in BOOLEAN :
        /\ s_log' = s_log \o
              <<Ev("socket", 0, s_socks + 1, <<>>, TRUE),
                Ev("sendto", 0, s_socks + 1,
                   <<MULTICAST_GROUP, pack_xcp_eth(DISCOVER_PDU, 0)>>, sent)>>
        /\ s_pc' = IF sent THEN "bcast_recv" ELSE "aborted"
    /\ UNCHANGED <<s_mode, s_ports, s_idx, s_endpoints>>

(* data, slave = self.socket.recvfrom(16) with data: endpoints.append *)
BcastRecvfrom ==
    /\ s_pc = "bcast_recv"
    /\ Len(s_slaves) < MaxReplies
    /\ \E slave \in SampleHosts :
        /\ s_slaves' = Append(s_slaves, slave)
        /\ Log(Ev("recvfrom", 0, s_socks, <<slave>>, TRUE))
    /\ UNCHANGED <<s_mode, s_ports, s_pc, s_idx, s_socks, s_open, s_endpoints>>

(* recvfrom returns an empty datagram (break) or raises TimeoutError: the  *)
(* loop ends, test_eth_broadcast returns and main calls test_udp.          *)
BcastAfterEnd_retry == "bcast_recv"
BcastAfterEnd == "udp_loop"

BcastRecvEnds ==
    /\ s_pc = "bcast_recv"
    /\ \E returned \in BOOLEAN : Log(Ev("recvfrom", 0, s_socks, <<>>, returned))
    /\ s_pc' = BcastAfterEnd
    /\ UNCHANGED <<s_mode, s_ports, s_idx, s_socks, s_open, s_endpoints,
                   s_slaves>>

InitScan ==
    /\ IdleBut("scan")
    /\ s_mode \in {"tcp", "udp"}
    /\ s_ports \in PortLists
    /\ s_pc = "main"
    /\ s_idx = 0
    /\ s_socks = 0
    /\ s_open = {}
    /\ s_endpoints = <<>>
    /\ s_slaves = <<>>
    /\ s_log = <<>>

ScanStep ==
    \/ Main
    \/ TcpSocket
    \/ TcpFinished
    \/ TcpConnect
    \/ TcpConnectFails
    \/ TcpSend
    \/ TcpSendFails
    \/ TcpRecv
    \/ TcpRecvFails
    \/ XcpDisconnect
    \/ SocketClose
    \/ UdpSocket
    \/ UdpFinished
    \/ UdpSendto
    \/ UdpSendtoFails
    \/ UdpRecv
    \/ UdpRecvTimeout
    \/ BcastLocalAddr
    \/ BcastLocalAddrFails
    \/ BcastSendto
    \/ BcastRecvfrom
    \/ BcastRecvEnds

NextScan == ScanStep /\ UnchangedBut("scan")

SpecScan == InitScan /\ [][NextScan]_vars

----------------------------------------------------------------------------
(* Claims about the port scans (checked under SpecScan) *)

(* For the port entry i a response was received whose payload after the    *)
(* 4-byte header is non-empty and starts with 0xFF.                        *)
GotXcpResponse(i) ==
    \E j \in 1..Len(s_log) :
        /\ s_log[j].op = "recv" /\ s_log[j].idx = i /\ s_log[j].ok
        /\ Len(s_log[j].data) > 4
        /\ s_log[j].data[5] = 255

PortIndexes == [i \in 1..Len(s_ports) |-> i]
XcpIndexes == SelectSeq(PortIndexes, GotXcpResponse)

TimesIn(seq, x) == Cardinality({k \in 1..Len(seq) : seq[k] = x})

(* C7 as stated: a port is counted iff a response with a non-empty payload *)
(* starting with 0xFF was received on it, and every configured port is     *)
(* counted at most once.                                                   *)
C7_PortCountedOnceIffXcp ==
    \A p \in SamplePorts :
        /\ TimesIn(s_endpoints, p) > 0 <=>
              \E i \in 1..Len(s_ports) : s_ports[i] = p /\ GotXcpResponse(i)
        /\ TimesIn(s_endpoints, p) <= 1

(* C7 as amended: the endpoints are, in list order, the ports of exactly   *)
(* those entries of the port list for which a response with a non-empty    *)
(* payload starting with 0xFF was received; every entry is counted at most *)
(* once, so a port is counted at most as often as the list names it.       *)
C7_EntryCountedOnceIffXcp ==
    /\ s_endpoints = [k \in 1..Len(XcpIndexes) |-> s_ports[XcpIndexes[k]]]
    /\ \A p \in SamplePorts : TimesIn(s_endpoints, p) <= TimesIn(s_ports, p)

(* C7 witness: a finished scan of two entries, the first counted, the      *)
(* second answered by something that is no XCP response and not counted.   *)
C7_Witness ==
    /\ s_pc = "done"
    /\ Len(s_ports) = 2
    /\ s_endpoints = <<s_ports[1]>>
    /\ GotXcpResponse(1)
    /\ \E j \in 1..Len(s_log) :
          s_log[j].op = "recv" /\ s_log[j].idx = 2 /\ s_log[j].ok

(* The sockets the scans opened for the port entries, in order. *)
IsPortSocket(e) == e.op = "socket" /\ e.idx > 0
PortSockets == SelectSeq(s_log, IsPortSocket)

(* C8: every entry of the port list is probed exactly once and in list     *)
(* order, and whatever happens on a port the scan goes on: once a scan has *)
(* started it ends only after the last entry.                              *)
C8_EveryPortProbedDespiteFailures ==
    /\ \A k \in 1..Len(PortSockets) : PortSockets[k].idx = k
    /\ (s_pc \in {"done", "aborted"} /\ s_idx >= 1) =>
          Len(PortSockets) = Len(s_ports)

(* C9: a socket is closed before the next one is opened, and a run that    *)
(* ended, normally or by an exception, left no socket open.                *)
C9_SocketsClosedOnEveryPath ==
    /\ Cardinality(s_open) <= 1
    /\ s_pc \in {"done", "aborted"} => s_open = {}

(* C10: in the TCP scan the response classified as XCP slave is followed   *)
(* directly by the sendto of the disconnect frame (header 02 00 01 00,     *)
(* payload FE 00) on the same socket and by the close of that socket, so   *)
(* both precede the socket and the connect of the next port and the end of *)
(* the scan.                                                               *)
C10_DisconnectAndCloseBeforeNextPort ==
    \A j \in 1..Len(s_log) :
        (/\ s_mode = "tcp"
         /\ s_log[j].op = "recv" /\ s_log[j].ok
         /\ Len(s_log[j].data) > 4 /\ s_log[j].data[5] = 255) =>
            /\ Len(s_log) >= j + 1 =>
                  /\ s_log[j+1].op = "sendto"
                  /\ s_log[j+1].sock = s_log[j].sock
                  /\ s_log[j+1].data = <<2, 0, 1, 0, 254, 0>>
            /\ Len(s_log) >= j + 2 =>
                  /\ s_log[j+2].op = "close"
                  /\ s_log[j+2].sock = s_log[j].sock
                  /\ s_log[j].sock \notin s_open
            /\ (s_pc = "done" \/ s_idx > s_log[j].idx) => Len(s_log) >= j + 2

(* C10 witness: a finished TCP scan of two ports whose first port answered *)
(* as an XCP slave.                                                        *)
C10_Witness ==
    /\ s_mode = "tcp"
    /\ s_pc = "done"
    /\ Len(s_ports) = 2
    /\ GotXcpResponse(1)
    /\ \E j \in 1..Len(s_log) : s_log[j].op = "connect" /\ s_log[j].idx = 2

----------------------------------------------------------------------------
(* Claims about test_eth_broadcast (checked under SpecScan) *)

IsBcastSendto(e) == e.op = "sendto" /\ e.idx = 0
IsBcastRecv(e) == e.op = "recvfrom" /\ e.idx = 0
IsBcastReply(e) == IsBcastRecv(e) /\ e.data # <<>>
IsBcastEnd(e) == IsBcastRecv(e) /\ e.data = <<>>

BcastReplies == SelectSeq(s_log, IsBcastReply)
BcastEnds == {j \in 1..Len(s_log) : IsBcastEnd(s_log[j])}

----------------------------------------------------------------------------
(* gallia.utils: auto_int and _unravel                                     *)
(*                                                                         *)
(* A string is the sequence of its characters.                             *)

MaxListingLen == 4  \* length of the enumerated listings

DecDigit == [c \in {"0", "1", "2", "3", "4", "5", "6", "7", "8", "9"} |->
    CASE c = "0" -> 0 [] c = "1" -> 1 [] c = "2" -> 2 [] c = "3" -> 3
      [] c = "4" -> 4 [] c = "5" -> 5 [] c = "6" -> 6 [] c = "7" -> 7
      [] c = "8" -> 8 [] c = "9" -> 9]

HexDigit == [c \in DOMAIN DecDigit \cup {"a", "b", "c", "d", "e", "f"} |->
    CASE c \in DOMAIN DecDigit -> DecDigit[c]
      [] c = "a" -> 10 [] c = "b" -> 11 [] c = "c" -> 12
      [] c = "d" -> 13 [] c = "e" -> 14 [] c = "f" -> 15]

AllIn(s, chars) == \A i \in 1..Len(s) : s[i] \in chars

Contains(s, ch) == \E i \in 1..Len(s) : s[i] = ch

(* str.split(sep) for a separator of one character *)
RECURSIVE Split(_, _)
Split(s, sep) ==
    IF ~Contains(s, sep) THEN <<s>>
    ELSE LET i == CHOOSE k \in 1..Len(s) :
                      s[k] = sep /\ \A j \in 1..(k - 1) : s[j] # sep
         IN <<SubSeq(s, 1, i - 1)>> \o Split(SubSeq(s, i + 1, Len(s)), sep)

(* value of a numeral whose characters are keys of digit *)
RECURSIVE ToNat(_, _, _)
ToNat(s, digit, base) ==
    IF s = <<>> THEN 0
    ELSE ToNat(SubSeq(s, 1, Len(s) - 1), digit, base) * base + digit[s[Len(s)]]

Raised == [ok |-> FALSE, val |-> <<>>]

Returned(v) == [ok |-> TRUE, val |-> v]

(* int(arg, 0): the base follows the prefix; a decimal numeral that is not *)
(* zero has no leading zero.  The enumerated strings hold no sign, blank,  *)
(* underscore, upper case letter, "0o" or "0b".                            *)
auto_int(arg) ==
    IF Len(arg) >= 2 /\ arg[1] = "0" /\ arg[2] = "x"
    THEN LET digits == SubSeq(arg, 3, Len(arg))
         IN IF digits # <<>> /\ AllIn(digits, DOMAIN HexDigit)
            THEN Returned(ToNat(digits, HexDigit, 16))
            ELSE Raised
    ELSE IF arg # <<>> /\ AllIn(arg, DOMAIN DecDigit)
              /\ (arg[1] = "0" => AllIn(arg, {"0"}))
         THEN Returned(ToNat(arg, DecDigit, 10))
         ELSE Raised

RangeStop_exclusive(last) == last

(* the stop of range(first, last + 1) *)
RangeStop(last) == last + 1

(* the integers one element of the listing adds to result *)
ElementValues(range_element) ==
    IF Contains(range_element, "-")
    THEN LET parts == Split(range_element, "-")
         IN IF Len(parts) # 2 THEN Raised
            ELSE LET first == auto_int(parts[1])
                     last == auto_int(parts[2])
                 IN IF ~first.ok \/ ~last.ok THEN Raised
                    ELSE Returned({element \in first.val..last.val :
                                       element < RangeStop(last.val)})
    ELSE LET element == auto_int(range_element)
         IN IF element.ok THEN Returned({element.val}) ELSE Raised

(* sorted(result) for a set of integers *)
sorted(result) ==
    [i \in 1..Cardinality(result) |->
        CHOOSE x \in result : Cardinality({y \in result : y < x}) = i - 1]

_unravel(listing) ==
    LET elements == Split(listing, ",")
        values == [i \in 1..Len(elements) |-> ElementValues(elements[i])]
    IN IF \E i \in 1..Len(values) : ~values[i].ok THEN Raised
       ELSE Returned(sorted(UNION {values[i].val : i \in 1..Len(values)}))

ListingChars == {"0", "1", "2", "x", ",", "-"}

(* all strings over ListingChars of at most n characters *)
RECURSIVE StringsUpTo(_)
StringsUpTo(n) ==
    IF n = 0 THEN {<<>>}
    ELSE LET shorter == StringsUpTo(n - 1)
         IN shorter \cup {Append(t, c) : t \in shorter, c \in ListingChars}

SampleListings ==
    { <<"1", "-", "3", ",", "5">>,
      <<"5", ",", "1", "-", "3">>,
      <<"3", ",", "1", ",", "3">>,
      <<"2", "-", "4", ",", "3", "-", "5">>,
      <<"0", "x", "1", "0", "-", "0", "x", "1", "2", ",", "1", "7">>,
      <<"0", "x", "a", "-", "1", "2", ",", "9">> }

Listings == StringsUpTo(MaxListingLen) \cup SampleListings

Unravel ==
    /\ l_pc = "called"
    /\ l_result' = _unravel(l_listing)
    /\ l_pc' = "done"
    /\ UNCHANGED l_listing

InitParse ==
    /\ IdleBut("parse")
    /\ l_pc = "called"
    /\ l_listing \in Listings
    /\ l_result = Returned(<<>>)

ParseStep == Unravel

NextParse == ParseStep /\ UnchangedBut("parse")

SpecParse == InitParse /\ [][NextParse]_vars

----------------------------------------------------------------------------
(* The range grammar, as the specification words it *)

(* the text between two neighbouring commas (or an end) of the listing *)
ListingElements(listing) ==
    LET cuts == {0, Len(listing) + 1}
                    \cup {i \in 1..Len(listing) : listing[i] = ","}
    IN {SubSeq(listing, p + 1, q - 1) :
            <<p, q>> \in {c \in cuts \X cuts :
                /\ c[1] < c[2]
                /\ ~\E m \in cuts : c[1] < m /\ m < c[2]}}

IsDecimal(s) == s # <<>> /\ AllIn(s, DOMAIN DecDigit)

HasLeadingZero(s) == Len(s) >= 2 /\ s[1] = "0" /\ ~AllIn(s, {"0"})

IsHex(s) ==
    /\ Len(s) >= 3 /\ s[1] = "0" /\ s[2] = "x"
    /\ AllIn(SubSeq(s, 3, Len(s)), DOMAIN HexDigit)

IsNumber(s) == IsDecimal(s) \/ IsHex(s)

NumberValue(s) ==
    IF IsHex(s) THEN ToNat(SubSeq(s, 3, Len(s)), HexDigit, 16)
    ELSE ToNat(s, DecDigit, 10)

(* the splits of an element a-b into its two numbers *)
RangeBounds(e) ==
    {<<SubSeq(e, 1, i - 1), SubSeq(e, i + 1, Len(e))>> :
        i \in {k \in 1..Len(e) : e[k] = "-"}}

IsRange(e) == \E b \in RangeBounds(e) : IsNumber(b[1]) /\ IsNumber(b[2])

WellFormed(listing) ==
    \A e \in ListingElements(listing) : IsNumber(e) \/ IsRange(e)

(* the numbers that are written in the listing *)
NumbersOf(listing) ==
    UNION {IF IsNumber(e) THEN {e}
           ELSE UNION {{b[1], b[2]} : b \in RangeBounds(e)} :
               e \in ListingElements(listing)}

(* the union of the single values and of the ranges *)
Denotation(listing) ==
    UNION {IF IsNumber(e) THEN {NumberValue(e)}
           ELSE UNION {NumberValue(b[1])..NumberValue(b[2]) :
                           b \in RangeBounds(e)} :
               e \in ListingElements(listing)}

StrictlyAscending(seq) == \A i \in 1..(Len(seq) - 1) : seq[i] < seq[i + 1]

ElementsOfSeq(seq) == {seq[i] : i \in 1..Len(seq)}

UnravelsTo(listing, result) ==
    /\ result.ok
    /\ StrictlyAscending(result.val)
    /\ ElementsOfSeq(result.val) = Denotation(listing)

(* C12 as stated: for every well-formed listing (elements separated by    *)
(* commas, each a non-negative integer in decimal or 0x-hex or a range    *)
(* a-b), _unravel returns a strictly ascending list whose elements are    *)
(* exactly the single values and the integers a..b of the ranges.  It is  *)
(* violated by a decimal number with a leading zero, which int(arg, 0)    *)
(* rejects.                                                                *)
C12_UnravelSortedUnion ==
    (l_pc = "done" /\ WellFormed(l_listing))
        => UnravelsTo(l_listing, l_result)

(* C12, amended: the same for the well-formed listings in which no decimal *)
(* number other than zero starts with the digit 0; and "1-3,5" yields      *)
(* 1, 2, 3, 5.                                                             *)
C12_UnravelSortedUnionNoLeadingZero ==
    /\ (/\ l_pc = "done"
        /\ WellFormed(l_listing)
        /\ \A n \in NumbersOf(l_listing) : ~HasLeadingZero(n))
           => UnravelsTo(l_listing, l_result)
    /\ (l_pc = "done" /\ l_listing = <<"1", "-", "3", ",", "5">>)
           => l_result = Returned(<<1, 2, 3, 5>>)

C12_Witness ==
    /\ l_pc = "done"
    /\ l_listing = <<"2", "-", "4", ",", "3", "-", "5">>
    /\ l_result = Returned(<<2, 3, 4, 5>>)

----------------------------------------------------------------------------
(* gallia.utils: ParseSkips.__call__                                       *)
(*                                                                         *)
(* A dictionary is a function on its keys.  A value of skip_sids is None   *)
(* or a list of ids.                                                       *)

MaxEntries == 2     \* entries of one skip argument

None == [none |-> TRUE, ids |-> <<>>]

List(ids) == [none |-> FALSE, ids |-> ids]

SessionTexts ==
    { <<"1">>, <<"2">>, <<"5">>, <<"1", "-", "2">>, <<"x">> }

IdTexts ==
    { <<"1", "0">>, <<"1", "0", "-", "1", "2">>,
      <<"1", "1", ",", "0", "x", "1", "0">>,
      <<"x">>, <<"1", "-", "2", "-", "3">> }

EntryTexts ==
    SessionTexts
        \cup {s \o <<":">> \o i : s \in SessionTexts, i \in IdTexts}
        \cup { <<"1", ":", "1", "0", ":", "1", "1">> }

RECURSIVE EntryLists(_)
EntryLists(n) ==
    IF n = 0 THEN {<<>>}
    ELSE LET shorter == EntryLists(n - 1)
         IN shorter \cup {Append(v, e) : v \in shorter, e \in EntryTexts}

SkipValues ==
    {[none |-> TRUE, entries |-> <<>>]}
        \cup {[none |-> FALSE, entries |-> v] : v \in EntryLists(MaxEntries)}

SkipWholeSessions_keep(skip_sids, session_ids) ==
    [sid \in DOMAIN skip_sids \cup ElementsOfSeq(session_ids) |->
        IF sid \in DOMAIN skip_sids THEN skip_sids[sid] ELSE None]

(* skip_sids after the for loop over session_ids of an entry without ":" *)
SkipWholeSessions(skip_sids, session_ids) ==
    [sid \in DOMAIN skip_sids \cup ElementsOfSeq(session_ids) |->
        IF sid \in ElementsOfSeq(session_ids) THEN None ELSE skip_sids[sid]]

AddIds_replace(skips, identifier_ids) == List(identifier_ids)

(* skips += identifier_ids, for skips that is not None *)
AddIds(skips, identifier_ids) == List(skips.ids \o identifier_ids)

(* skip_sids after the for loop over session_ids of an entry with ":" *)
SkipIdentifiers(skip_sids, session_ids, identifier_ids) ==
    [sid \in DOMAIN skip_sids \cup ElementsOfSeq(session_ids) |->
        IF sid \notin ElementsOfSeq(session_ids) THEN skip_sids[sid]
        ELSE LET skips == IF sid \in DOMAIN skip_sids THEN skip_sids[sid]
                          ELSE List(<<>>)
             IN IF skips.none THEN skips ELSE AddIds(skips, identifier_ids)]

(* one iteration of "for session_skips in values": the dictionary after   *)
(* it, or that it raised                                                   *)
SkipEntry(skip_sids, session_skips) ==
    IF ~Contains(session_skips, ":")
    THEN LET session_ids == _unravel(session_skips)
         IN IF ~session_ids.ok THEN Raised
            ELSE Returned(SkipWholeSessions(skip_sids, session_ids.val))
    ELSE LET parts == Split(session_skips, ":")
         IN IF Len(parts) # 2 THEN Raised
            ELSE LET session_ids == _unravel(parts[1])
                     identifier_ids == _unravel(parts[2])
                 IN IF ~session_ids.ok \/ ~identifier_ids.ok THEN Raised
                    ELSE Returned(SkipIdentifiers(skip_sids, session_ids.val,
                                                  identifier_ids.val))

NamespaceAfterRaise_partial(namespace, skip_sids) ==
    [set |-> TRUE, val |-> skip_sids]

(* the namespace when the loop raised: setattr was not reached *)
NamespaceAfterRaise(namespace, skip_sids) == namespace

SkipsLoopEnded == k_values.none \/ k_idx > Len(k_values.entries)

(* an iteration of the for loop that raises nothing *)
SkipsEntry ==
    /\ k_pc = "loop" /\ ~SkipsLoopEnded
    /\ LET r == SkipEntry(k_skip_sids, k_values.entries[k_idx])
       IN /\ r.ok
          /\ k_skip_sids' = r.val
    /\ k_idx' = k_idx + 1
    /\ UNCHANGED <<k_pc, k_values, k_namespace>>

(* an iteration that raises: except Exception -> ArgumentError *)
SkipsEntryMalformed ==
    /\ k_pc = "loop" /\ ~SkipsLoopEnded
    /\ ~SkipEntry(k_skip_sids, k_values.entries[k_idx]).ok
    /\ k_pc' = "ArgumentError"
    /\ k_namespace' = NamespaceAfterRaise(k_namespace, k_skip_sids)
    /\ UNCHANGED <<k_values, k_idx, k_skip_sids>>

(* setattr(namespace, self.dest, skip_sids) *)
SkipsSetattr ==
    /\ k_pc = "loop" /\ SkipsLoopEnded
    /\ k_namespace' = [set |-> TRUE, val |-> k_skip_sids]
    /\ k_pc' = "returned"
    /\ UNCHANGED <<k_values, k_idx, k_skip_sids>>

InitSkips ==
    /\ IdleBut("skips")
    /\ k_pc = "loop"
    /\ k_values \in SkipValues
    /\ k_idx = 1
    /\ k_skip_sids = <<>>
    /\ k_namespace = [set |-> FALSE, val |-> <<>>]

SkipsStep == SkipsEntry \/ SkipsEntryMalformed \/ SkipsSetattr

NextSkips == SkipsStep /\ UnchangedBut("skips")

SpecSkips == InitSkips /\ [][NextSkips]_vars

----------------------------------------------------------------------------
(* The skip grammar, as the specification words it *)

ColonCount(e) == Cardinality({i \in 1..Len(e) : e[i] = ":"})

HasIdRange(e) == ColonCount(e) = 1

ColonAt(e) == CHOOSE i \in 1..Len(e) : e[i] = ":"

SessionPart(e) == IF HasIdRange(e) THEN SubSeq(e, 1, ColonAt(e) - 1) ELSE e

IdPart(e) == SubSeq(e, ColonAt(e) + 1, Len(e))

CleanListing(listing) ==
    /\ WellFormed(listing)
    /\ \A n \in NumbersOf(listing) : ~HasLeadingZero(n)

WellFormedEntry(e) ==
    /\ ColonCount(e) <= 1
    /\ CleanListing(SessionPart(e))
    /\ HasIdRange(e) => CleanListing(IdPart(e))

NamedSessions(e) == Denotation(SessionPart(e))

(* indexes of the entries that name session s with / without an id range *)
EntriesWithIds(entries, s) ==
    {j \in 1..Len(entries) :
        HasIdRange(entries[j]) /\ s \in NamedSessions(entries[j])}

EntriesWholeSession(entries, s) ==
    {j \in 1..Len(entries) :
        ~HasIdRange(entries[j]) /\ s \in NamedSessions(entries[j])}

AccumulatedIds(entries, s) ==
    UNION {Denotation(IdPart(entries[j])) : j \in EntriesWithIds(entries, s)}

AllWellFormed(entries) ==
    \A j \in 1..Len(entries) : WellFormedEntry(entries[j])

SkipsParsed ==
    k_pc = "returned" /\ ~k_values.none /\ AllWellFormed(k_values.entries)

ExampleSkipEntries ==
    << <<"1", "-", "2", ":", "1", "0", "-", "1", "2">>, <<"5">> >>

(* C13 as stated: every session of an entry "sessions:ids" is mapped to    *)
(* the ids accumulated over the entries naming it, every session of an     *)
(* entry without ":ids" to None, and no other session is a key.  It is     *)
(* violated when a session is named both with and without an id range.     *)
C13_SkipMapPerEntry ==
    SkipsParsed =>
        LET entries == k_values.entries
            m == k_namespace.val
        IN /\ DOMAIN m = UNION {NamedSessions(entries[j]) :
                                    j \in 1..Len(entries)}
           /\ \A s \in DOMAIN m :
                /\ EntriesWithIds(entries, s) # {} =>
                     /\ ~m[s].none
                     /\ ElementsOfSeq(m[s].ids) = AccumulatedIds(entries, s)
                /\ EntriesWholeSession(entries, s) # {} => m[s].none

(* C13, amended: a session named by an entry without ":ids" is mapped to   *)
(* None; every other named session is mapped to the ids accumulated over   *)
(* the entries naming it; no other session is a key; well-formed entries   *)
(* are never rejected; and "1-2:10-12 5" yields {1: 10..12, 2: 10..12,     *)
(* 5: None}.                                                               *)
C13_SkipMapWholeSessionFirst ==
    /\ SkipsParsed =>
        LET entries == k_values.entries
            m == k_namespace.val
        IN /\ DOMAIN m = UNION {NamedSessions(entries[j]) :
                                    j \in 1..Len(entries)}
           /\ \A s \in DOMAIN m :
                IF EntriesWholeSession(entries, s) # {} THEN m[s].none
                ELSE /\ ~m[s].none
                     /\ ElementsOfSeq(m[s].ids) = AccumulatedIds(entries, s)
    /\ (k_pc = "ArgumentError") => ~AllWellFormed(k_values.entries)
    /\ (k_pc = "returned" /\ k_values.entries = ExampleSkipEntries) =>
            k_namespace.val = [s \in {1, 2, 5} |->
                IF s = 5 THEN None ELSE List(<<10, 11, 12>>)]

C13_Witness ==
    /\ k_pc = "returned"
    /\ \E s \in DOMAIN k_namespace.val :
         /\ Cardinality(EntriesWithIds(k_values.entries, s)) = 2
         /\ Cardinality(AccumulatedIds(k_values.entries, s)) >= 4
         /\ ElementsOfSeq(k_namespace.val[s].ids)
                = AccumulatedIds(k_values.entries, s)

----------------------------------------------------------------------------
(* gallia.commands.primitive.uds.xcp: SimpleTestXCP                        *)

MaxXcpId == 1       \* the CAN ids of the configuration are 0..MaxXcpId

NoId == -1          \* the value None of can_master / can_slave

XcpIds == 0..MaxXcpId

TransportTypes == {"RawCANTransport", "ISOTPTransport", "TCPTransport"}

NoService == [class |-> "none", master |-> NoId, slave |-> NoId]

XcpOperations == <<"connect", "get_status", "get_comm_mode_info", "disconnect">>

(* load_transport raises or transport_type.connect raises *)
XcpSetupConnectFails ==
    /\ x_pc = "setup"
    /\ x_pc' = "setup_raised"
    /\ UNCHANGED <<x_transport, x_can_master, x_can_slave, x_service, x_op,
                   x_log>>

(* a raw-CAN transport and both ids: the CAN XCP service is created *)
XcpSetupCan ==
    /\ x_pc = "setup" /\ x_transport = "RawCANTransport"
    /\ ~(x_can_master = NoId \/ x_can_slave = NoId)
    /\ x_service' = [class |-> "CANXCPSerivce", master |-> x_can_master,
                     slave |-> x_can_slave]
    /\ x_pc' = "super_setup"
    /\ UNCHANGED <<x_transport, x_can_master, x_can_slave, x_op, x_log>>

(* a raw-CAN transport and an id is None: parser.error exits *)
XcpSetupCanMissingId ==
    /\ x_pc = "setup" /\ x_transport = "RawCANTransport"
    /\ (x_can_master = NoId \/ x_can_slave = NoId)
    /\ x_pc' = "SystemExit"
    /\ UNCHANGED <<x_transport, x_can_master, x_can_slave, x_service, x_op,
                   x_log>>

(* an ISO-TP transport: parser.error exits *)
XcpSetupIsotp ==
    /\ x_pc = "setup" /\ x_transport = "ISOTPTransport"
    /\ x_pc' = "SystemExit"
    /\ UNCHANGED <<x_transport, x_can_master, x_can_slave, x_service, x_op,
                   x_log>>

(* any other transport: the plain XCP service *)
XcpSetupOther ==
    /\ x_pc = "setup"
    /\ x_transport \notin {"RawCANTransport", "ISOTPTransport"}
    /\ x_service' = [class |-> "XCPService", master |-> NoId, slave |-> NoId]
    /\ x_pc' = "super_setup"
    /\ UNCHANGED <<x_transport, x_can_master, x_can_slave, x_op, x_log>>

(* await super().setup(self.config) returns: main is next *)
XcpSuperSetup ==
    /\ x_pc = "super_setup"
    /\ x_pc' = "main" /\ x_op' = 1
    /\ UNCHANGED <<x_transport, x_can_master, x_can_slave, x_service, x_log>>

(* await super().setup(self.config) raises *)
XcpSuperSetupFails ==
    /\ x_pc = "super_setup"
    /\ x_pc' = "setup_raised"
    /\ UNCHANGED <<x_transport, x_can_master, x_can_slave, x_service, x_op,
                   x_log>>

XcpCalled(raised) ==
    [op |-> XcpOperations[x_op], raised |-> raised, logged |-> raised,
     result |-> IF raised THEN "None" ELSE "value"]

AfterCaught_reraise(next) == "main_raised"

(* catch_and_log_exception returns None after an exception: main goes on *)
AfterCaught(next) == next

XcpAfterOperation == IF x_op = Len(XcpOperations) THEN "returned" ELSE "main"

(* await catch_and_log_exception(self.service.<operation>): it returns *)
XcpOperationReturns ==
    /\ x_pc = "main"
    /\ x_log' = Append(x_log, XcpCalled(FALSE))
    /\ x_op' = x_op + 1
    /\ x_pc' = XcpAfterOperation
    /\ UNCHANGED <<x_transport, x_can_master, x_can_slave, x_service>>

(* the operation raises an Exception: logged, None *)
XcpOperationRaises ==
    /\ x_pc = "main"
    /\ x_log' = Append(x_log, XcpCalled(TRUE))
    /\ x_op' = x_op + 1
    /\ x_pc' = AfterCaught(XcpAfterOperation)
    /\ UNCHANGED <<x_transport, x_can_master, x_can_slave, x_service>>

InitXcp ==
    /\ IdleBut("xcp")
    /\ x_pc = "setup"
    /\ x_transport \in TransportTypes
    /\ x_can_master \in XcpIds \cup {NoId}
    /\ x_can_slave \in XcpIds \cup {NoId}
    /\ x_service = NoService
    /\ x_op = 0
    /\ x_log = <<>>

XcpStep ==
    \/ XcpSetupConnectFails
    \/ XcpSetupCan
    \/ XcpSetupCanMissingId
    \/ XcpSetupIsotp
    \/ XcpSetupOther
    \/ XcpSuperSetup
    \/ XcpSuperSetupFails
    \/ XcpOperationReturns
    \/ XcpOperationRaises

NextXcp == XcpStep /\ UnchangedBut("xcp")

SpecXcp == InitXcp /\ [][NextXcp]_vars

XcpMainEnded == x_pc \in {"returned", "main_raised"}

(* C14: main calls connect, get_status, get_comm_mode_info and disconnect  *)
(* once each and in this order, whatever the earlier ones did; an          *)
(* operation that raises is logged and yields None.                        *)
C14_FourOperationsInOrder ==
    /\ Len(x_log) <= Len(XcpOperations)
    /\ \A i \in 1..Len(x_log) :
         /\ x_log[i].op = XcpOperations[i]
         /\ x_log[i].raised => (x_log[i].logged /\ x_log[i].result = "None")
    /\ XcpMainEnded => Len(x_log) = Len(XcpOperations)
    /\ x_pc # "main_raised"

C14_Witness ==
    /\ x_pc = "returned"
    /\ x_log[1].raised /\ x_log[2].raised /\ ~x_log[3].raised
    /\ x_log[4].op = "disconnect"

(* C15: the CAN XCP service is created only for a raw-CAN transport with   *)
(* both ids and the ids differ; with a missing id or an ISO-TP transport   *)
(* setup ends with the argument error and no operation is called.          *)
C15_CanServiceNeedsTwoDistinctIds ==
    /\ x_service.class = "CANXCPSerivce" =>
         /\ x_transport = "RawCANTransport"
         /\ x_can_master # NoId /\ x_can_slave # NoId
         /\ x_can_master # x_can_slave
    /\ (\/ x_transport = "ISOTPTransport"
        \/ x_transport = "RawCANTransport"
             /\ (x_can_master = NoId \/ x_can_slave = NoId)) =>
         /\ x_pc \in {"setup", "setup_raised", "SystemExit"}
         /\ x_service = NoService
         /\ x_log = <<>>

----------------------------------------------------------------------------
(* gallia.commands.script.vecu: VirtualECUConfig and VirtualECU.main       *)

Platforms == {"linux", "win32", "darwin"}

TransportSchemes ==
    {"tcp", "tcp-lines", "isotp", "can-raw", "doip", "unix", "unix-lines"}

ConfigKinds == {"db", "rng"}

supported_win32_isotp(platform) ==
    IF platform = "win32" THEN {"tcp", "isotp"}
    ELSE IF platform = "linux" THEN {"tcp", "isotp", "unix-lines"}
    ELSE {}

(* check_transport_requirements: the list supported *)
supported(platform) ==
    IF platform = "win32" THEN {"tcp"}
    ELSE IF platform = "linux" THEN {"tcp", "isotp", "unix-lines"}
    ELSE {}

(* the server main creates for a configuration *)
ServerOf(kind) ==
    CASE kind = "db" -> "DBUDSServer"
      [] kind = "rng" -> "RandomUDSServer"
      [] OTHER -> "AssertionError"

(* match target.scheme under "if sys.platform.startswith('linux')" *)
LinuxDispatch(scheme) ==
    CASE scheme = "tcp" -> "TCPUDSServerTransport"
      [] scheme = "isotp" -> "ISOTPUDSServerTransport"
      [] scheme = "unix-lines" -> "UnixUDSServerTransport"
      [] OTHER -> "assert False"

(* match target.scheme under "if sys.platform.startswith('win32')" *)
Win32Dispatch(scheme) ==
    CASE scheme = "tcp" -> "TCPUDSServerTransport"
      [] OTHER -> "assert False"

(* what the two platform blocks of main assign to transport, in order *)
Dispatch(platform, scheme) ==
    (IF platform = "linux" THEN <<LinuxDispatch(scheme)>> ELSE <<>>)
        \o (IF platform = "win32" THEN <<Win32Dispatch(scheme)>> ELSE <<>>)

VecuCall(op, ok) == [op |-> op, ok |-> ok]

(* the validator returns self *)
VecuAccepted ==
    /\ v_pc = "validate"
    /\ v_scheme \in supported(v_platform)
    /\ v_pc' = "main"
    /\ UNCHANGED <<v_platform, v_scheme, v_kind, v_server, v_transports,
                   v_exc, v_log>>

(* the validator raises ValueError *)
VecuRejected ==
    /\ v_pc = "validate"
    /\ v_scheme \notin supported(v_platform)
    /\ v_pc' = "ValueError"
    /\ UNCHANGED <<v_platform, v_scheme, v_kind, v_server, v_transports,
                   v_exc, v_log>>

(* main up to the try statement *)
VecuSelect ==
    /\ v_pc = "main"
    /\ v_server' = ServerOf(v_kind)
    /\ LET selected == Dispatch(v_platform, v_scheme)
       IN IF ServerOf(v_kind) = "AssertionError"
             \/ \E i \in 1..Len(selected) : selected[i] = "assert False"
          THEN v_pc' = "AssertionError" /\ UNCHANGED v_transports
          ELSE v_pc' = "setup" /\ v_transports' = selected
    /\ UNCHANGED <<v_platform, v_scheme, v_kind, v_exc, v_log>>

AfterSetupRaised_propagate == "raised"

(* an exception inside try: the finally clause is next *)
AfterSetupRaised == "finally"

VecuSetupReturns ==
    /\ v_pc = "setup"
    /\ v_log' = Append(v_log, VecuCall("setup", TRUE))
    /\ v_pc' = "run"
    /\ UNCHANGED <<v_platform, v_scheme, v_kind, v_server, v_transports,
                   v_exc>>

VecuSetupRaises ==
    /\ v_pc = "setup"
    /\ v_log' = Append(v_log, VecuCall("setup", FALSE))
    /\ v_exc' = TRUE
    /\ v_pc' = AfterSetupRaised
    /\ UNCHANGED <<v_platform, v_scheme, v_kind, v_server, v_transports>>

(* transport.run() returns; transport is bound *)
VecuRunReturns ==
    /\ v_pc = "run" /\ v_transports # <<>>
    /\ v_log' = Append(v_log, VecuCall("run", TRUE))
    /\ v_pc' = "finally"
    /\ UNCHANGED <<v_platform, v_scheme, v_kind, v_server, v_transports,
                   v_exc>>

VecuRunRaises ==
    /\ v_pc = "run"
    /\ v_log' = Append(v_log, VecuCall("run", FALSE))
    /\ v_exc' = TRUE
    /\ v_pc' = "finally"
    /\ UNCHANGED <<v_platform, v_scheme, v_kind, v_server, v_transports>>

(* finally: await server.teardown() *)
VecuTeardownReturns ==
    /\ v_pc = "finally"
    /\ v_log' = Append(v_log, VecuCall("teardown", TRUE))
    /\ v_pc' = IF v_exc THEN "raised" ELSE "returned"
    /\ UNCHANGED <<v_platform, v_scheme, v_kind, v_server, v_transports,
                   v_exc>>

VecuTeardownRaises ==
    /\ v_pc = "finally"
    /\ v_log' = Append(v_log, VecuCall("teardown", FALSE))
    /\ v_exc' = TRUE
    /\ v_pc' = "raised"
    /\ UNCHANGED <<v_platform, v_scheme, v_kind, v_server, v_transports>>

InitVecu ==
    /\ IdleBut("vecu")
    /\ v_pc = "validate"
    /\ v_platform \in Platforms
    /\ v_scheme \in TransportSchemes
    /\ v_kind \in ConfigKinds
    /\ v_server = "none"
    /\ v_transports = <<>>
    /\ v_exc = FALSE
    /\ v_log = <<>>

VecuStep ==
    \/ VecuAccepted
    \/ VecuRejected
    \/ VecuSelect
    \/ VecuSetupReturns
    \/ VecuSetupRaises
    \/ VecuRunReturns
    \/ VecuRunRaises
    \/ VecuTeardownReturns
    \/ VecuTeardownRaises

NextVecu == VecuStep /\ UnchangedBut("vecu")

SpecVecu == InitVecu /\ [][NextVecu]_vars

VecuCalls(op) == {i \in 1..Len(v_log) : v_log[i].op = op}

VecuMainEnded == v_pc \in {"returned", "raised"}

(* C16: transport.run starts only after server.setup returned without      *)
(* error; server.teardown is awaited exactly once after setup / run ended, *)
(* whether they returned or raised.                                        *)
C16_TeardownOnceAfterSetupAndRun ==
    /\ \A i \in VecuCalls("run") :
         \E j \in VecuCalls("setup") : j < i /\ v_log[j].ok
    /\ Cardinality(VecuCalls("setup")) <= 1
    /\ Cardinality(VecuCalls("teardown")) <= 1
    /\ \A i \in VecuCalls("teardown") : i = Len(v_log) /\ i > 1
    /\ VecuMainEnded => Cardinality(VecuCalls("teardown")) = 1
    /\ (v_log # <<>> /\ v_pc \notin {"setup", "run", "finally"})
           => VecuMainEnded

C16_Witness ==
    /\ v_pc = "raised"
    /\ v_log = <<VecuCall("setup", FALSE), VecuCall("teardown", TRUE)>>

(* the platforms and schemes the specification lists *)
SpecSupported ==
    [p \in Platforms |->
        CASE p = "linux" -> {"tcp", "isotp", "unix-lines"}
          [] p = "win32" -> {"tcp"}
          [] OTHER -> {}]

VecuWasAccepted == v_pc \notin {"validate", "ValueError"}

(* C17: a configuration is accepted only if its scheme is supported on the *)
(* platform and rejected otherwise; for an accepted one main selects       *)
(* exactly one server transport before setup and never reaches an          *)
(* "assert False".                                                         *)
C17_AcceptedSchemeSelectsOneTransport ==
    /\ VecuWasAccepted => v_scheme \in SpecSupported[v_platform]
    /\ v_pc = "ValueError" => v_scheme \notin SpecSupported[v_platform]
    /\ v_pc # "AssertionError"
    /\ (VecuWasAccepted /\ v_pc # "main") =>
         /\ Len(v_transports) = 1
         /\ v_transports[1] \in {"TCPUDSServerTransport",
                "ISOTPUDSServerTransport", "UnixUDSServerTransport"}
    /\ (v_log # <<>>) => Len(v_transports) = 1

C17_Witness ==
    /\ v_platform = "linux" /\ v_scheme = "unix-lines"
    /\ v_transports = <<"UnixUDSServerTransport">>
    /\ VecuCalls("setup") # {}

----------------------------------------------------------------------------
(* gallia.plugins.plugin: load_plugins and load_transport                  *)

MaxPlugins == 2     \* entry points of the group gallia_plugins

TransportClass(name, scheme) == [name |-> name, SCHEME |-> scheme]

TcpA == TransportClass("TcpA", "tcp")

TcpB == TransportClass("TcpB", "tcp")

Isotp == TransportClass("Isotp", "isotp")

NoClass == TransportClass("none", "none")

(* an entry point: whether it is a subclass of Plugin, and its transports() *)
PluginEntry(is_plugin, transports) ==
    [is_plugin |-> is_plugin, transports |-> transports]

SamplePlugins ==
    { PluginEntry(TRUE, <<>>),
      PluginEntry(TRUE, <<TcpA>>),
      PluginEntry(TRUE, <<TcpB, TcpA>>),
      PluginEntry(TRUE, <<Isotp>>),
      PluginEntry(TRUE, <<Isotp, TcpB>>),
      PluginEntry(FALSE, <<>>) }

TargetSchemes == {"tcp", "isotp", "doip"}

RECURSIVE Registries(_)
Registries(n) ==
    IF n = 0 THEN {<<>>}
    ELSE LET shorter == Registries(n - 1)
         IN shorter \cup {Append(r, p) : r \in shorter, p \in SamplePlugins}

SchemeMatches_any(scheme, transport) == TRUE

(* target.scheme == transport.SCHEME *)
SchemeMatches(scheme, transport) == scheme = transport.SCHEME

AllArePlugins(registry) ==
    \A i \in 1..Len(registry) : registry[i].is_plugin

(* load_plugins returns the list of the plugins *)
LoadPlugins ==
    /\ t_pc = "load_plugins"
    /\ AllArePlugins(t_registry)
    /\ t_pc' = "loop" /\ t_plugin' = 1 /\ t_transport' = 1
    /\ UNCHANGED <<t_registry, t_target, t_result>>

(* load_plugins raises ValueError for an entry point that is no Plugin *)
LoadPluginsRaises ==
    /\ t_pc = "load_plugins"
    /\ ~AllArePlugins(t_registry)
    /\ t_pc' = "ValueError"
    /\ UNCHANGED <<t_registry, t_target, t_plugin, t_transport, t_result>>

PluginsLeft == t_plugin <= Len(t_registry)

TransportsLeft ==
    PluginsLeft /\ t_transport <= Len(t_registry[t_plugin].transports)

(* if target.scheme == transport.SCHEME: return transport *)
TransportMatches ==
    /\ t_pc = "loop" /\ TransportsLeft
    /\ SchemeMatches(t_target, t_registry[t_plugin].transports[t_transport])
    /\ t_result' = t_registry[t_plugin].transports[t_transport]
    /\ t_pc' = "returned"
    /\ UNCHANGED <<t_registry, t_target, t_plugin, t_transport>>

TransportDiffers ==
    /\ t_pc = "loop" /\ TransportsLeft
    /\ ~SchemeMatches(t_target, t_registry[t_plugin].transports[t_transport])
    /\ t_transport' = t_transport + 1
    /\ UNCHANGED <<t_pc, t_registry, t_target, t_plugin, t_result>>

(* the inner loop is exhausted: the next plugin *)
NextPlugin ==
    /\ t_pc = "loop" /\ PluginsLeft /\ ~TransportsLeft
    /\ t_plugin' = t_plugin + 1 /\ t_transport' = 1
    /\ UNCHANGED <<t_pc, t_registry, t_target, t_result>>

(* raise ValueError(f"no transport for {target}") *)
NoTransport ==
    /\ t_pc = "loop" /\ ~PluginsLeft
    /\ t_pc' = "ValueError"
    /\ UNCHANGED <<t_registry, t_target, t_plugin, t_transport, t_result>>

InitLoad ==
    /\ IdleBut("load")
    /\ t_pc = "load_plugins"
    /\ t_registry \in Registries(MaxPlugins)
    /\ t_target \in TargetSchemes
    /\ t_plugin = 0 /\ t_transport = 0
    /\ t_result = NoClass

LoadStep ==
    \/ LoadPlugins
    \/ LoadPluginsRaises
    \/ TransportMatches
    \/ TransportDiffers
    \/ NextPlugin
    \/ NoTransport

NextLoad == LoadStep /\ UnchangedBut("load")

SpecLoad == InitLoad /\ [][NextLoad]_vars

(* the registered transports in plugin order *)
RECURSIVE Registered(_)
Registered(registry) ==
    IF registry = <<>> THEN <<>>
    ELSE registry[1].transports \o Registered(Tail(registry))

WithScheme(registry, scheme) ==
    SelectSeq(Registered(registry), LAMBDA t : t.SCHEME = scheme)

(* C18: load_transport returns the first registered transport, in plugin   *)
(* order, whose SCHEME equals target.scheme; it fails with an error when   *)
(* no registered transport has this scheme; it never returns a transport   *)
(* of another scheme.                                                      *)
C18_FirstTransportOfScheme ==
    /\ t_pc = "returned" =>
         /\ t_result.SCHEME = t_target
         /\ WithScheme(t_registry, t_target) # <<>>
         /\ t_result = Head(WithScheme(t_registry, t_target))
    /\ t_pc # "returned" => t_result = NoClass
    /\ (t_pc \notin {"load_plugins", "loop"}
            /\ WithScheme(t_registry, t_target) = <<>>) => t_pc = "ValueError"
    /\ (t_pc = "ValueError" /\ AllArePlugins(t_registry))
            => WithScheme(t_registry, t_target) = <<>>

C18_Witness ==
    /\ t_pc = "returned"
    /\ t_registry = <<PluginEntry(TRUE, <<Isotp, TcpB>>),
                      PluginEntry(TRUE, <<TcpA>>)>>
    /\ t_result = TcpB

----------------------------------------------------------------------------
(* gallia.commands.script.rerun: Rerunner.main                             *)

MaxRunId == 1       \* ids of run_meta are 0..MaxRunId

RunIds == 0..MaxRunId

NotCalled == -1     \* no entry_point / sys.exit call so far

NoCommand == [class |-> [module |-> <<>>, name |-> "none"], config |-> {}]

(* the column script: a dotted name, here as its parts *)
SampleScripts ==
    { <<"gallia", "commands", "scan", "ServicesScanner">>,
      <<"gallia", "commands", "primitive", "Ping">> }

(* the column config: JSON text *)
SampleConfigTexts == {"{}", "{\"target\": \"tcp\"}", "{\"target\": \"isotp\", \"id\": 1}"}

(* json.loads for the sample texts: the dictionary as the set of its       *)
(* items, values in their JSON spelling                                    *)
json_loads(text) ==
    CASE text = "{}" -> {}
      [] text = "{\"target\": \"tcp\"}" -> {<<"target", "\"tcp\"">>}
      [] text = "{\"target\": \"isotp\", \"id\": 1}" ->
             {<<"target", "\"isotp\"">>, <<"id", "1">>}

Rows == [script : SampleScripts, config : SampleConfigTexts]

Tables == UNION {[ids -> Rows] : ids \in SUBSET RunIds}

ExitStatuses == 0..2

(* script.split(".")[-1] *)
class_name(script) == script[Len(script)]

(* ".".join(script.split(".")[:-1]) *)
module(script) == SubSeq(script, 1, Len(script) - 1)

(* getattr(importlib.import_module(module), class_name) *)
GalliaClass(mod, name) == [module |-> mod, name |-> name]

(* cursor.fetchone() is None *)
RowIsNone == r_id \notin DOMAIN r_db

(* no row: logger.error and return *)
RerunNoRow ==
    /\ r_pc = "main" /\ RowIsNone
    /\ r_errors' = r_errors + 1
    /\ r_pc' = "returned"
    /\ UNCHANGED <<r_db, r_id, r_command, r_returned, r_exit>>

(* a row: the class is looked up and instantiated with the stored config *)
RerunInstantiate ==
    /\ r_pc = "main" /\ ~RowIsNone
    /\ LET row == r_db[r_id]
       IN r_command' = [class |-> GalliaClass(module(row.script),
                                               class_name(row.script)),
                        config |-> json_loads(row.config)]
    /\ r_pc' = "entry_point"
    /\ UNCHANGED <<r_db, r_id, r_returned, r_exit, r_errors>>

ExitWith_zero(status) == 0

(* sys.exit(command.entry_point()) *)
ExitWith(status) == status

RerunEntryPoint ==
    /\ r_pc = "entry_point"
    /\ \E status \in ExitStatuses :
         /\ r_returned' = status
         /\ r_exit' = ExitWith(status)
    /\ r_pc' = "SystemExit"
    /\ UNCHANGED <<r_db, r_id, r_command, r_errors>>

InitRerun ==
    /\ IdleBut("rerun")
    /\ r_pc = "main"
    /\ r_db \in Tables
    /\ r_id \in RunIds
    /\ r_command = NoCommand
    /\ r_returned = NotCalled
    /\ r_exit = NotCalled
    /\ r_errors = 0

RerunStep == RerunNoRow \/ RerunInstantiate \/ RerunEntryPoint

NextRerun == RerunStep /\ UnchangedBut("rerun")

SpecRerun == InitRerun /\ [][NextRerun]_vars

(* the rows of run_meta with the given id *)
StoredRows == {row \in Rows : r_id \in DOMAIN r_db /\ r_db[r_id] = row}

----------------------------------------------------------------------------
(* The UDS service: one request under the negative-response retry policy   *)
(* (the service layer is modelled from the specification, sections 4.2     *)
(* and 8)                                                                  *)

MaxScript == 4          \* responses of the mock ECU
MaxPendingLimit == 2    \* the configured maximum is 1..MaxPendingLimit
MaxRetryLimit == 1      \* the configured retry count is 0..MaxRetryLimit

NRC_responsePending == 120      \* requestCorrectlyReceivedResponsePending, 0x78
NRC_busyRepeatRequest == 33     \* busyRepeatRequest, 0x21
NRC_requestOutOfRange == 49     \* an NRC without retry, 0x31
NEGATIVE_RESPONSE_SID == 127    \* first byte of a negative response, 0x7F
RESPONSE_SID_OFFSET == 64       \* positive response: service id + 0x40

(* ReadDataByIdentifier 0xF190 *)
REQUEST_PDU == <<34, 241, 144>>

PositiveResponse(request) ==
    <<request[1] + RESPONSE_SID_OFFSET>> \o Tail(request) \o <<1>>

NegativeResponse(request, nrc) == <<NEGATIVE_RESPONSE_SID, request[1], nrc>>

EcuResponses ==
    { PositiveResponse(REQUEST_PDU),
      NegativeResponse(REQUEST_PDU, NRC_responsePending),
      NegativeResponse(REQUEST_PDU, NRC_busyRepeatRequest),
      NegativeResponse(REQUEST_PDU, NRC_requestOutOfRange) }

RECURSIVE EcuScripts(_)
EcuScripts(n) ==
    IF n = 0 THEN {<<>>}
    ELSE LET shorter == EcuScripts(n - 1)
         IN shorter \cup {Append(s, r) : s \in shorter, r \in EcuResponses}

IsNegative(pdu) == pdu[1] = NEGATIVE_RESPONSE_SID

IsNrc(pdu, nrc) == IsNegative(pdu) /\ pdu[3] = nrc

PendingExhausted_exceeding(n_pending, max_pending) == n_pending > max_pending

(* the pending iterations are used up *)
PendingExhausted(n_pending, max_pending) == n_pending >= max_pending

EcuAnswers == u_pos < Len(u_script)

(* Transport.send(pdu, timeout): the PDU goes on the wire once; there is   *)
(* no retry at this layer                                                  *)
TransportSend(wire, pdu) == Append(wire, pdu)

RetriesLeft_inclusive(n_retry, max_retry) == n_retry <= max_retry

(* the retry count for busyRepeatRequest is not used up *)
RetriesLeft(n_retry, max_retry) == n_retry < max_retry

(* the request is written to the transport *)
UdsSend ==
    /\ u_pc = "send"
    /\ u_sent' = Append(u_sent, REQUEST_PDU)
    /\ u_wire' = TransportSend(u_wire, REQUEST_PDU)
    /\ u_n_pending' = 0
    /\ u_pc' = "receive"
    /\ UNCHANGED <<u_script, u_pos, u_max_pending, u_max_retry, u_n_retry,
                   u_receives, u_result>>

(* a receive attempt that yields a positive response or an NRC that is     *)
(* handed to the caller                                                    *)
UdsReceiveFinal ==
    /\ u_pc = "receive" /\ EcuAnswers
    /\ LET pdu == u_script[u_pos + 1]
       IN /\ ~IsNrc(pdu, NRC_responsePending)
          /\ IsNrc(pdu, NRC_busyRepeatRequest)
                => ~RetriesLeft(u_n_retry, u_max_retry)
          /\ u_result' = IF IsNegative(pdu) THEN "NegativeResponse"
                         ELSE "positive"
    /\ u_pos' = u_pos + 1
    /\ u_receives' = u_receives + 1
    /\ u_pc' = "done"
    /\ UNCHANGED <<u_script, u_max_pending, u_max_retry, u_n_pending,
                   u_n_retry, u_sent, u_wire>>

(* a receive attempt that yields NRC 0x78: await again with a fresh        *)
(* timeout, or give up                                                     *)
UdsReceivePending ==
    /\ u_pc = "receive" /\ EcuAnswers
    /\ IsNrc(u_script[u_pos + 1], NRC_responsePending)
    /\ u_pos' = u_pos + 1
    /\ u_receives' = u_receives + 1
    /\ u_n_pending' = u_n_pending + 1
    /\ IF PendingExhausted(u_n_pending + 1, u_max_pending)
       THEN u_pc' = "done" /\ u_result' = "TimeoutError"
       ELSE u_pc' = "receive" /\ UNCHANGED u_result
    /\ UNCHANGED <<u_script, u_max_pending, u_max_retry, u_n_retry, u_sent, u_wire>>

(* a receive attempt that yields NRC 0x21 with retries left: resend *)
UdsReceiveBusy ==
    /\ u_pc = "receive" /\ EcuAnswers
    /\ IsNrc(u_script[u_pos + 1], NRC_busyRepeatRequest)
    /\ RetriesLeft(u_n_retry, u_max_retry)
    /\ u_pos' = u_pos + 1
    /\ u_receives' = u_receives + 1
    /\ u_n_retry' = u_n_retry + 1
    /\ u_pc' = "send"
    /\ UNCHANGED <<u_script, u_max_pending, u_max_retry, u_n_pending, u_sent,
                   u_result, u_wire>>

(* a receive attempt that times out: the ECU stays silent *)
UdsReceiveTimeout ==
    /\ u_pc = "receive" /\ ~EcuAnswers
    /\ u_receives' = u_receives + 1
    /\ u_result' = "TimeoutError"
    /\ u_pc' = "done"
    /\ UNCHANGED <<u_script, u_pos, u_max_pending, u_max_retry, u_n_pending,
                   u_n_retry, u_sent, u_wire>>

InitUds ==
    /\ IdleBut("uds")
    /\ u_pc = "send"
    /\ u_script \in EcuScripts(MaxScript)
    /\ u_pos = 0
    /\ u_max_pending \in 1..MaxPendingLimit
    /\ u_max_retry \in 0..MaxRetryLimit
    /\ u_n_pending = 0
    /\ u_n_retry = 0
    /\ u_sent = <<>>
    /\ u_receives = 0
    /\ u_result = "none"
    /\ u_wire = <<>>

UdsStep ==
    \/ UdsSend
    \/ UdsReceiveFinal
    \/ UdsReceivePending
    \/ UdsReceiveBusy
    \/ UdsReceiveTimeout

NextUds == UdsStep /\ UnchangedBut("uds")

SpecUds == InitUds /\ [][NextUds]_vars

(* the ECU answers NRC 0x78 exactly n times and then positively *)
PendingThenPositive(script, n) ==
    /\ Len(script) >= n + 1
    /\ \A i \in 1..n : IsNrc(script[i], NRC_responsePending)
    /\ ~IsNegative(script[n + 1])

(* C20: when the ECU answers NRC 0x78 exactly N times and then positively, *)
(* the call succeeds after exactly N + 1 receive attempts and one send for *)
(* every N below the maximum of pending iterations, and fails with a       *)
(* timeout for every N at or above it.                                     *)
C20_PendingRetryBounded ==
    \A n \in 0..MaxScript :
        (u_pc = "done" /\ PendingThenPositive(u_script, n)) =>
            /\ u_sent = <<REQUEST_PDU>>
            /\ IF n < u_max_pending
               THEN u_result = "positive" /\ u_receives = n + 1
               ELSE u_result = "TimeoutError"

C20_Witness ==
    /\ u_pc = "done" /\ u_max_pending = 2
    /\ PendingThenPositive(u_script, 1)
    /\ u_result = "positive" /\ u_receives = 2

BusyAnswers ==
    {i \in 1..u_pos : IsNrc(u_script[i], NRC_busyRepeatRequest)}

(* C21: on NRC 0x21 the service resends the original request bytes; one    *)
(* call sends at most 1 + the configured retry count times, and only a     *)
(* busy answer causes a resend; the transport puts on the wire exactly     *)
(* what the service sent, it never resends.                                *)
C21_BusyRepeatBounded ==
    /\ \A i \in 1..Len(u_sent) : u_sent[i] = REQUEST_PDU
    /\ Len(u_sent) <= 1 + u_max_retry
    /\ Len(u_sent) <= 1 + Cardinality(BusyAnswers)
    /\ (u_pc = "receive" /\ u_pos > 0
            /\ IsNrc(u_script[u_pos], NRC_busyRepeatRequest))
         => Len(u_sent) = 1 + Cardinality(BusyAnswers)
    /\ (u_pc = "done" /\ u_pos > 0 /\ u_result = "NegativeResponse"
            /\ IsNrc(u_script[u_pos], NRC_busyRepeatRequest))
         => Len(u_sent) = 1 + u_max_retry
    /\ u_wire = u_sent

C21_Witness ==
    /\ u_pc = "done" /\ u_max_retry = 1
    /\ u_sent = <<REQUEST_PDU, REQUEST_PDU>>
    /\ Cardinality(BusyAnswers) = 2
    /\ u_result = "NegativeResponse"

----------------------------------------------------------------------------
(* gallia.commands.primitive.uds: wdbi.WriteByIdentifierPrimitive.main and *)
(* wmba.WMBAPrimitive.main                                                 *)

MaxSession == 2         \* config.session is 1..MaxSession
MaxWriteAddress == 1    \* data identifiers / addresses are 0..MaxWriteAddress

DEFAULT_SESSION == 1    \* the session that needs no session request, 0x01

WriteCommands == {"wdbi", "wmba"}

ConfigData ==
    {[none |-> TRUE, bytes |-> <<>>]}
        \cup {[none |-> FALSE, bytes |-> b] : b \in {<<>>, <<1, 2>>}}

DataFiles ==
    {[kind |-> "None", bytes |-> <<>>], [kind |-> "unreadable", bytes |-> <<>>],
     [kind |-> "file", bytes |-> <<3>>]}

(* a call on self.ecu: outcome is "positive", "NegativeResponse", "raised", *)
(* or for check_and_set_session "True" / "False"                           *)
EcuCall(op, arg, data, outcome) ==
    [op |-> op, arg |-> arg, data |-> data, outcome |-> outcome]

WriteOperation == IF w_command = "wdbi" THEN "write_data_by_identifier"
                  ELSE "write_memory_by_address"

SessionFailed_goes_on == "data"

(* logger.critical(...) and sys.exit(1) *)
SessionFailed == "SystemExit"

(* wdbi: config.session is 0x01, no session request *)
WdbiDefaultSession ==
    /\ w_pc = "session" /\ w_command = "wdbi"
    /\ ~(w_session # DEFAULT_SESSION)
    /\ w_pc' = "data"
    /\ UNCHANGED <<w_command, w_session, w_address, w_config_data, w_file,
                   w_data, w_calls, w_logged, w_exit>>

(* wdbi: set_session returns a positive response *)
WdbiSetSessionPositive ==
    /\ w_pc = "session" /\ w_command = "wdbi"
    /\ w_session # DEFAULT_SESSION
    /\ w_calls' = Append(w_calls,
                         EcuCall("set_session", w_session, <<>>, "positive"))
    /\ w_pc' = "data"
    /\ UNCHANGED <<w_command, w_session, w_address, w_config_data, w_file,
                   w_data, w_logged, w_exit>>

(* wdbi: set_session returns a NegativeResponse, or it raises *)
WdbiSetSessionFails ==
    /\ w_pc = "session" /\ w_command = "wdbi"
    /\ w_session # DEFAULT_SESSION
    /\ \E outcome \in {"NegativeResponse", "raised"} :
         w_calls' = Append(w_calls,
                           EcuCall("set_session", w_session, <<>>, outcome))
    /\ w_logged' = Append(w_logged, "critical")
    /\ w_pc' = SessionFailed
    /\ w_exit' = IF SessionFailed = "SystemExit" THEN 1 ELSE w_exit
    /\ UNCHANGED <<w_command, w_session, w_address, w_config_data, w_file,
                   w_data>>

(* wmba: check_and_set_session returns; its value is not used *)
WmbaCheckSessionReturns ==
    /\ w_pc = "session" /\ w_command = "wmba"
    /\ \E returned \in {"True", "False"} :
         w_calls' = Append(w_calls, EcuCall("check_and_set_session",
                                            w_session, <<>>, returned))
    /\ w_pc' = "data"
    /\ UNCHANGED <<w_command, w_session, w_address, w_config_data, w_file,
                   w_data, w_logged, w_exit>>

(* wmba: check_and_set_session raises *)
WmbaCheckSessionRaises ==
    /\ w_pc = "session" /\ w_command = "wmba"
    /\ w_calls' = Append(w_calls, EcuCall("check_and_set_session",
                                          w_session, <<>>, "raised"))
    /\ w_logged' = Append(w_logged, "critical")
    /\ w_pc' = SessionFailed
    /\ w_exit' = IF SessionFailed = "SystemExit" THEN 1 ELSE w_exit
    /\ UNCHANGED <<w_command, w_session, w_address, w_config_data, w_file,
                   w_data>>

(* data = config.data, or the content of config.data_file *)
WriteTakeData ==
    /\ w_pc = "data"
    /\ ~w_config_data.none \/ w_file.kind = "file"
    /\ w_data' = IF ~w_config_data.none THEN w_config_data.bytes
                 ELSE w_file.bytes
    /\ w_pc' = "write"
    /\ UNCHANGED <<w_command, w_session, w_address, w_config_data, w_file,
                   w_calls, w_logged, w_exit>>

(* config.data is None and data_file is None or cannot be read *)
WriteTakeDataRaises ==
    /\ w_pc = "data"
    /\ w_config_data.none /\ w_file.kind # "file"
    /\ w_pc' = "raised"
    /\ UNCHANGED <<w_command, w_session, w_address, w_config_data, w_file,
                   w_data, w_calls, w_logged, w_exit>>

AfterNegativeWrite_again == "write"

(* a NegativeResponse of the write: logger.error, main returns *)
AfterNegativeWrite == "returned"

(* the write operation returns the positive response *)
WritePositive ==
    /\ w_pc = "write"
    /\ w_calls' = Append(w_calls,
                         EcuCall(WriteOperation, w_address, w_data, "positive"))
    /\ w_logged' = Append(w_logged, "result")
    /\ w_pc' = "returned"
    /\ UNCHANGED <<w_command, w_session, w_address, w_config_data, w_file,
                   w_data, w_exit>>

(* the write operation returns a NegativeResponse *)
WriteNegative ==
    /\ w_pc = "write"
    /\ w_calls' = Append(w_calls, EcuCall(WriteOperation, w_address, w_data,
                                          "NegativeResponse"))
    /\ w_logged' = Append(w_logged, "error")
    /\ w_pc' = AfterNegativeWrite
    /\ UNCHANGED <<w_command, w_session, w_address, w_config_data, w_file,
                   w_data, w_exit>>

(* the write operation raises: the exception leaves main *)
WriteRaises ==
    /\ w_pc = "write"
    /\ w_calls' = Append(w_calls,
                         EcuCall(WriteOperation, w_address, w_data, "raised"))
    /\ w_pc' = "raised"
    /\ UNCHANGED <<w_command, w_session, w_address, w_config_data, w_file,
                   w_data, w_logged, w_exit>>

InitWrite ==
    /\ IdleBut("write")
    /\ w_pc = "session"
    /\ w_command \in WriteCommands
    /\ w_session \in 1..MaxSession
    /\ w_address \in 0..MaxWriteAddress
    /\ w_config_data \in ConfigData
    /\ w_file \in DataFiles
    /\ w_data = <<>>
    /\ w_calls = <<>>
    /\ w_logged = <<>>
    /\ w_exit = -1

WriteStep ==
    \/ WdbiDefaultSession
    \/ WdbiSetSessionPositive
    \/ WdbiSetSessionFails
    \/ WmbaCheckSessionReturns
    \/ WmbaCheckSessionRaises
    \/ WriteTakeData
    \/ WriteTakeDataRaises
    \/ WritePositive
    \/ WriteNegative
    \/ WriteRaises

NextWrite == WriteStep /\ UnchangedBut("write")

SpecWrite == InitWrite /\ [][NextWrite]_vars

IsWriteCall(e) ==
    e.op \in {"write_data_by_identifier", "write_memory_by_address"}

IsSessionCall(e) == e.op \in {"set_session", "check_and_set_session"}

WriteCalls == SelectSeq(w_calls, IsWriteCall)

SessionCalls == SelectSeq(w_calls, IsSessionCall)

NegativeWrites ==
    SelectSeq(w_calls,
              LAMBDA e : IsWriteCall(e) /\ e.outcome = "NegativeResponse")

Errors == SelectSeq(w_logged, LAMBDA level : level = "error")

(* C22: a negative response to the write request is not retried: the       *)
(* command calls the write operation once, logs the response as an error   *)
(* and main returns, without sys.exit.                                     *)
C22_NegativeWriteNotRetried ==
    /\ Len(WriteCalls) <= 1
    /\ Len(Errors) = Len(NegativeWrites)
    /\ NegativeWrites # <<>> =>
         /\ w_pc = "returned"
         /\ w_exit = -1
         /\ Len(WriteCalls) = 1
         /\ w_calls[Len(w_calls)].outcome = "NegativeResponse"

C22_Witness ==
    /\ w_pc = "returned" /\ w_command = "wmba"
    /\ Len(NegativeWrites) = 1 /\ w_logged = <<"error">>

(* C27: the write request is sent only after the session step succeeded:   *)
(* wmba after check_and_set_session returned without raising, wdbi with    *)
(* session 0x01 (no session request) or after a positive set_session; in   *)
(* every other case the command exits with status 1 without a write.       *)
C27_NoWriteWithoutSession ==
    /\ WriteCalls # <<>> =>
         IF w_command = "wmba"
         THEN /\ Len(SessionCalls) = 1
              /\ SessionCalls[1].op = "check_and_set_session"
              /\ SessionCalls[1].arg = w_session
              /\ SessionCalls[1].outcome # "raised"
              /\ IsSessionCall(w_calls[1])
         ELSE IF w_session = DEFAULT_SESSION THEN SessionCalls = <<>>
         ELSE /\ Len(SessionCalls) = 1
              /\ SessionCalls[1].op = "set_session"
              /\ SessionCalls[1].arg = w_session
              /\ SessionCalls[1].outcome = "positive"
              /\ IsSessionCall(w_calls[1])
    /\ (\E i \in 1..Len(w_calls) :
            /\ IsSessionCall(w_calls[i])
            /\ w_calls[i].outcome \in {"raised", "NegativeResponse"}) =>
         /\ w_pc = "SystemExit" /\ w_exit = 1
         /\ WriteCalls = <<>>
    /\ w_exit \in {-1, 1}

C27_Witness ==
    /\ w_command = "wdbi" /\ w_session = 2
    /\ Len(SessionCalls) = 1 /\ Len(WriteCalls) = 1
    /\ WriteCalls[1].data = <<3>>

----------------------------------------------------------------------------
(* The UDS service: session / security state machine (modelled from the    *)
(* specification, sections 3, 4.2 and 8)                                   *)

MaxOperations == 3      \* operations on one service instance

SecurityLocked == 0     \* Security State locked; other values: the level

SecurityLevels == {1, 3}

Sessions == 1..MaxSession

Seeds == { <<0, 0>>, <<18, 52>> }

AllZero(seed) == \A i \in 1..Len(seed) : seed[i] = 0

(* the key the ECU expects for a seed *)
ExpectedKey(seed) == [i \in 1..Len(seed) |-> 255 - seed[i]]

(* the key derivation functions a caller may supply *)
KeyFunctions == {"matching", "other"}

ApplyKeyFunction(key_fn, seed) ==
    IF key_fn = "matching" THEN ExpectedKey(seed) ELSE seed

Operation(op, arg, outcome) == [op |-> op, arg |-> arg, outcome |-> outcome]

MoreOperations == Len(q_log) < MaxOperations

SecurityAfterSessionChange_kept(security) == security

(* a session change resets the security state *)
SecurityAfterSessionChange(security) == SecurityLocked

(* set_session(id): positive DiagnosticSessionControl response *)
SetSessionPositive ==
    /\ MoreOperations
    /\ \E id \in Sessions :
         /\ q_session' = id
         /\ q_log' = Append(q_log, Operation("set_session", id, "positive"))
    /\ q_security' = SecurityAfterSessionChange(q_security)
    /\ UNCHANGED q_attempts

(* set_session(id): negative response or timeout *)
SetSessionFails ==
    /\ MoreOperations
    /\ \E id \in Sessions, outcome \in {"NegativeResponse", "TimeoutError"} :
         q_log' = Append(q_log, Operation("set_session", id, outcome))
    /\ UNCHANGED <<q_session, q_security, q_attempts>>

(* security_access(level, key_fn): the seed request is answered negatively *)
SecurityAccessNoSeed ==
    /\ MoreOperations
    /\ \E level \in SecurityLevels :
         q_log' = Append(q_log,
                         Operation("security_access", level, "NegativeResponse"))
    /\ UNCHANGED <<q_session, q_security, q_attempts>>

(* security_access: an all-zero seed, already unlocked, no key exchange *)
SecurityAccessZeroSeed ==
    /\ MoreOperations
    /\ \E level \in SecurityLevels, seed \in Seeds :
         /\ AllZero(seed)
         /\ q_security' = level
         /\ q_log' = Append(q_log,
                            Operation("security_access", level, "zero seed"))
    /\ UNCHANGED <<q_session, q_attempts>>

(* security_access: seed, key of key_fn, positive or invalidKey response *)
SecurityAccessKey ==
    /\ MoreOperations
    /\ \E level \in SecurityLevels, seed \in Seeds, key_fn \in KeyFunctions :
         /\ ~AllZero(seed)
         /\ IF ApplyKeyFunction(key_fn, seed) = ExpectedKey(seed)
            THEN /\ q_security' = level
                 /\ q_log' = Append(q_log, Operation("security_access", level,
                                                     "positive"))
                 /\ UNCHANGED q_attempts
            ELSE /\ q_log' = Append(q_log, Operation("security_access", level,
                                                     "invalidKey"))
                 /\ q_attempts' = q_attempts + 1
                 /\ UNCHANGED q_security
    /\ UNCHANGED q_session

(* loss of connection / reconnect: back to Default, SecurityLocked *)
Reconnect ==
    /\ MoreOperations
    /\ q_session' = DEFAULT_SESSION
    /\ q_security' = SecurityLocked
    /\ q_log' = Append(q_log, Operation("reconnect", 0, "connected"))
    /\ UNCHANGED q_attempts

InitState ==
    /\ IdleBut("state")
    /\ q_session = DEFAULT_SESSION
    /\ q_security = SecurityLocked
    /\ q_attempts = 0
    /\ q_log = <<>>

StateStep ==
    \/ SetSessionPositive
    \/ SetSessionFails
    \/ SecurityAccessNoSeed
    \/ SecurityAccessZeroSeed
    \/ SecurityAccessKey
    \/ Reconnect

NextState == StateStep /\ UnchangedBut("state")

SpecState == InitState /\ [][NextState]_vars

IsSessionChange(e) == e.op = "set_session" /\ e.outcome = "positive"

IsUnlock(e) == e.op = "security_access" /\ e.outcome = "positive"

(* index of the last entry of the log that sets the session state: a       *)
(* positive set_session or a reconnect (0: none)                           *)
LastSessionEntry ==
    LET S == {i \in 1..Len(q_log) :
                  IsSessionChange(q_log[i]) \/ q_log[i].op = "reconnect"}
    IN IF S = {} THEN 0 ELSE CHOOSE i \in S : \A j \in S : j <= i

(* C23: set_session(X) followed by security_access(level) with a correct   *)
(* key leaves the state at SecurityUnlocked(level) in session X; a session *)
(* change puts the security state back to SecurityLocked; on a connection  *)
(* the session state is the one of the last positive DiagnosticSession-    *)
(* Control response: no other response changes it.                         *)
C23_SessionSecurityStateMachine ==
    /\ \A i \in 2..Len(q_log) :
         (i = Len(q_log) /\ IsSessionChange(q_log[i - 1]) /\ IsUnlock(q_log[i]))
            => /\ q_session = q_log[i - 1].arg
               /\ q_security = q_log[i].arg
    /\ (q_log # <<>> /\ IsSessionChange(q_log[Len(q_log)]))
            => q_security = SecurityLocked
    /\ \A i \in 1..Len(q_log) :
         (IsSessionChange(q_log[i])
             /\ \A j \in (i + 1)..Len(q_log) : q_log[j].op = "set_session")
            => q_security = SecurityLocked
    /\ q_session = IF LastSessionEntry = 0 THEN DEFAULT_SESSION
                   ELSE IF q_log[LastSessionEntry].op = "reconnect"
                        THEN DEFAULT_SESSION
                        ELSE q_log[LastSessionEntry].arg

C23_Witness ==
    /\ Len(q_log) = 3
    /\ IsSessionChange(q_log[1]) /\ q_log[1].arg = 2
    /\ IsUnlock(q_log[2]) /\ q_log[2].arg = 3
    /\ IsSessionChange(q_log[3])
    /\ q_security = SecurityLocked

----------------------------------------------------------------------------
(* vecu rng: two instances of the randomized emulator. VirtualECU.main is  *)
(* modelled from vecu.py; RandomUDSServer is not part of the sources and   *)
(* is modelled from the specification, section 4.6                        *)

MaxSeed == 2            \* seeds 0..MaxSeed

MaxRequests == 2        \* requests on one connection

Instances == {"a", "b"}

RngSeeds == 0..MaxSeed

UdsRequests == { <<16, 1>>, <<16, 2>>, <<34, 7>> }

RequestSequences ==
    UNION { [1..n -> UdsRequests] : n \in 1..MaxRequests }

ServerSeed_entropy(config, entropy) == entropy

(* RandomUDSServer(self.config.seed, ...): the seed of the server's rng *)
ServerSeed(config, entropy) == config.seed

(* the pseudo-random generator: one step *)
NextRandom(rng) == (5 * rng + 3) % 16

(* the response of the randomized server to one request in one state *)
RandomResponse(rng, session, request) ==
    IF request[1] = 16
    THEN IF rng % 2 = 0 THEN <<80, request[2]>> ELSE <<127, 16, 18>>
    ELSE IF session = (request[2] % 2) + 1
         THEN <<98, request[2], rng>>
         ELSE <<127, 34, 49>>

SessionAfter(rng, session, request) ==
    IF request[1] = 16 /\ rng % 2 = 0 THEN request[2] ELSE session

NotStarted == [started |-> FALSE, rng |-> 0, session |-> DEFAULT_SESSION]

(* VirtualECU.main of one instance: the server is constructed *)
VecuStart(i) ==
    /\ ~g_server[i].started
    /\ g_server' = [g_server EXCEPT
                      ![i] = [started |-> TRUE,
                              rng |-> ServerSeed(g_config[i].config,
                                                 g_config[i].entropy),
                              session |-> DEFAULT_SESSION]]
    /\ UNCHANGED <<g_config, g_requests, g_responses>>

(* the instance answers the next request of its connection *)
VecuRespond(i) ==
    /\ g_server[i].started
    /\ Len(g_responses[i]) < Len(g_requests)
    /\ LET request == g_requests[Len(g_responses[i]) + 1]
           server == g_server[i]
       IN /\ g_responses' =
               [g_responses EXCEPT
                  ![i] = Append(@, RandomResponse(server.rng, server.session,
                                                  request))]
          /\ g_server' =
               [g_server EXCEPT
                  ![i] = [started |-> TRUE,
                          rng |-> NextRandom(server.rng),
                          session |-> SessionAfter(server.rng, server.session,
                                                   request)]]
    /\ UNCHANGED <<g_config, g_requests>>

InitRng ==
    /\ IdleBut("rng")
    /\ g_config \in [Instances -> [config : [seed : RngSeeds],
                                   entropy : RngSeeds]]
    /\ g_requests \in RequestSequences
    /\ g_server = [i \in Instances |-> NotStarted]
    /\ g_responses = [i \in Instances |-> <<>>]

RngStep == \E i \in Instances : VecuStart(i) \/ VecuRespond(i)

NextRng == RngStep /\ UnchangedBut("rng")

SpecRng == InitRng /\ [][NextRng]_vars

SameSeed == g_config["a"].config.seed = g_config["b"].config.seed

----------------------------------------------------------------------------
(* ISO-TP (ISO 15765-2, classic CAN, normal addressing): segmentation and  *)
(* reassembly, modelled from the specification, sections 4.1 and 8         *)

MaxIsotpLen == 120      \* payload lengths 1..MaxIsotpLen, each in full

ISOTP_MAX_LEN == 4095   \* the longest payload of a first frame (12 bit)

SingleFrameData == 7            \* payload bytes of a single / consecutive frame

FirstFrameData == 6            \* payload bytes of a first frame

SN_MODULUS == 16        \* the sequence number has 4 bits

BytePatterns == {1, 131}

PayloadOf(len, pattern) == [i \in 1..len |-> (i * pattern) % 256]

Min(a, b) == IF a <= b THEN a ELSE b

SingleFrame(payload) == <<Len(payload)>> \o payload

FirstFrame(payload) ==
    <<16 + (Len(payload) \div 256), Len(payload) % 256>>
        \o SubSeq(payload, 1, FirstFrameData)

ConsecutiveFrame(sn, chunk) == <<32 + sn>> \o chunk

(* number of consecutive frames of a payload longer than a single frame *)
ConsecutiveFrames(len) == (len - FirstFrameData + SingleFrameData - 1) \div SingleFrameData

Segment(payload) ==
    IF Len(payload) <= SingleFrameData
    THEN << SingleFrame(payload) >>
    ELSE << FirstFrame(payload) >>
         \o [k \in 1..ConsecutiveFrames(Len(payload)) |->
               ConsecutiveFrame(
                   k % SN_MODULUS,
                   SubSeq(payload, FirstFrameData + SingleFrameData * (k - 1) + 1,
                          Min(FirstFrameData + SingleFrameData * k, Len(payload))))]

(* consecutive frame k and its successor arrive in exchanged order *)
OutOfOrder(frames, k) ==
    [n \in 1..Len(frames) |->
        IF n = k + 1 THEN frames[k + 2]
        ELSE IF n = k + 2 THEN frames[k + 1]
        ELSE frames[n]]

FrameType(frame) == frame[1] \div 16

FrameData(frame, from) == SubSeq(frame, from, Len(frame))

SequenceOk_unchecked(sn, expected) == TRUE

(* the receiver's check of a consecutive frame's sequence number *)
SequenceOk(sn, expected) == sn = expected

HasFrame == i_next <= Len(i_frames)

ReceiveSingleFrame ==
    /\ i_pc = "idle" /\ HasFrame
    /\ FrameType(i_frames[i_next]) = 0
    /\ i_delivered' = SubSeq(i_frames[i_next], 2, 1 + (i_frames[i_next][1] % 16))
    /\ i_pc' = "delivered"
    /\ i_next' = i_next + 1
    /\ UNCHANGED <<i_payload, i_frames, i_inject, i_buffer, i_total,
                   i_expected_sn>>

ReceiveFirstFrame ==
    /\ i_pc = "idle" /\ HasFrame
    /\ FrameType(i_frames[i_next]) = 1
    /\ i_total' = (i_frames[i_next][1] % 16) * 256 + i_frames[i_next][2]
    /\ i_buffer' = FrameData(i_frames[i_next], 3)
    /\ i_expected_sn' = 1
    /\ i_pc' = "receiving"
    /\ i_next' = i_next + 1
    /\ UNCHANGED <<i_payload, i_frames, i_inject, i_delivered>>

ReceiveConsecutiveFrame ==
    /\ i_pc = "receiving" /\ HasFrame
    /\ FrameType(i_frames[i_next]) = 2
    /\ SequenceOk(i_frames[i_next][1] % 16, i_expected_sn)
    /\ LET buffer == i_buffer \o FrameData(i_frames[i_next], 2)
       IN IF Len(buffer) >= i_total
          THEN /\ i_delivered' = SubSeq(buffer, 1, i_total)
               /\ i_buffer' = <<>>
               /\ i_pc' = "delivered"
          ELSE /\ i_buffer' = buffer
               /\ i_pc' = "receiving"
               /\ UNCHANGED i_delivered
    /\ i_expected_sn' = (i_expected_sn + 1) % SN_MODULUS
    /\ i_next' = i_next + 1
    /\ UNCHANGED <<i_payload, i_frames, i_inject, i_total>>

ReceiveOutOfSequence ==
    /\ i_pc = "receiving" /\ HasFrame
    /\ \/ FrameType(i_frames[i_next]) # 2
       \/ ~SequenceOk(i_frames[i_next][1] % 16, i_expected_sn)
    /\ i_pc' = "FramingError"
    /\ i_buffer' = <<>>
    /\ i_next' = i_next + 1
    /\ UNCHANGED <<i_payload, i_frames, i_inject, i_total, i_expected_sn,
                   i_delivered>>

InitIsotp ==
    /\ IdleBut("isotp")
    /\ \E len \in (1..MaxIsotpLen) \cup {ISOTP_MAX_LEN}, pattern \in BytePatterns :
         /\ i_payload = PayloadOf(len, pattern)
         /\ \/ /\ i_inject = 0
               /\ i_frames = Segment(i_payload)
            \/ /\ len <= MaxIsotpLen
               /\ i_inject \in 1..(ConsecutiveFrames(len) - 1)
               /\ i_frames = OutOfOrder(Segment(i_payload), i_inject)
    /\ i_next = 1
    /\ i_pc = "idle"
    /\ i_buffer = <<>>
    /\ i_total = 0
    /\ i_expected_sn = 0
    /\ i_delivered = <<>>

IsotpStep ==
    \/ ReceiveSingleFrame
    \/ ReceiveFirstFrame
    \/ ReceiveConsecutiveFrame
    \/ ReceiveOutOfSequence

NextIsotp == IsotpStep /\ UnchangedBut("isotp")

SpecIsotp == InitIsotp /\ [][NextIsotp]_vars

(* C25: reassembling the frames of a segmented payload in order yields     *)
(* exactly the payload, for single-frame and multi-frame lengths up to     *)
(* 4095 bytes; a frame sequence with a consecutive frame out of order ends *)
(* in a FramingError and never delivers a payload.                         *)
C25_IsotpRoundTrip ==
    /\ (i_inject = 0 /\ i_next > Len(i_frames))
          => i_pc = "delivered" /\ i_delivered = i_payload
    /\ i_inject = 0 => i_pc # "FramingError"
    /\ i_inject # 0 => i_pc # "delivered" /\ i_delivered = <<>>
    /\ (i_inject # 0 /\ i_next > i_inject + 1) => i_pc = "FramingError"
    /\ i_pc = "FramingError" => i_delivered = <<>>

C25_Witness ==
    /\ Len(i_payload) = ISOTP_MAX_LEN
    /\ i_inject = 0
    /\ i_pc = "delivered"
    /\ i_delivered = i_payload

C25_WitnessOutOfOrder ==
    /\ i_inject = SN_MODULUS - 1
    /\ i_pc = "FramingError"
    /\ Len(i_payload) = MaxIsotpLen

----------------------------------------------------------------------------
(* Termination of FindXCP.test_can                                         *)

(* the steps of test_can itself (the bus is the environment) *)
CanProgram ==
    \/ Connect
    \/ SniffIdle
    \/ SetFilter
    \/ Flush
    \/ RangeFirst
    \/ Sendto
    \/ SendtoTimeout
    \/ RecvFrame
    \/ RecvTimeout
    \/ RangeNext

(* The coroutine is always resumed: each await returns or raises. The bus  *)
(* carries finitely many frames, so after each probe it eventually stays   *)
(* silent and recvfrom times out.                                          *)
SpecCanLive ==
    /\ InitCan
    /\ [][NextCan]_vars
    /\ WF_vars(CanProgram /\ UnchangedBut("can"))

SendtoCalls(id) == {i \in 1..Len(calls) : IsSendto(calls[i]) /\ calls[i].arg = id}

OneProbePerId ==
    \A id \in CanIds :
        Cardinality(SendtoCalls(id)) =
            IF can_id_start <= id /\ id <= can_id_end THEN 1 ELSE 0

(* C26: a CAN discovery run eventually finishes, and has then sent exactly *)
(* one probe to every id of can_id_start..can_id_end; no timeout of a      *)
(* sendto or of a recvfrom ends it before.                                 *)
C26_DiscoveryRunFinishes == <>(pc = "done" /\ OneProbePerId)

----------------------------------------------------------------------------
(* ParseSkips and the order of the entries *)

(* the for loop of ParseSkips.__call__ over a list of entries *)
RECURSIVE ParseEntries(_, _)
ParseEntries(skip_sids, entries) ==
    IF entries = <<>> THEN Returned(skip_sids)
    ELSE LET r == SkipEntry(skip_sids, Head(entries))
         IN IF ~r.ok THEN Raised ELSE ParseEntries(r.val, Tail(entries))

Permuted(entries, p) == [j \in 1..Len(entries) |-> entries[p[j]]]

(* a skip map read as session -> set of ids, or None *)
AsSets(m) ==
    [s \in DOMAIN m |-> [none |-> m[s].none, ids |-> ElementsOfSeq(m[s].ids)]]

(* C28: a session named by a whole-session entry is mapped to None whether *)
(* that entry stands before or after the entries giving ids for it, and    *)
(* the map stored (session -> set of ids, or None) is the one every        *)
(* permutation of the entries yields; a list with a malformed entry is     *)
(* rejected in every order.                                                *)
C28_SkipMapOrderIndependent ==
    /\ (k_pc = "returned" /\ ~k_values.none) =>
         /\ \A s \in DOMAIN k_namespace.val :
              EntriesWholeSession(k_values.entries, s) # {}
                  => k_namespace.val[s].none
         /\ \A p \in Permutations(1..Len(k_values.entries)) :
              LET r == ParseEntries(<<>>, Permuted(k_values.entries, p))
              IN r.ok /\ AsSets(r.val) = AsSets(k_namespace.val)
    /\ (k_pc = "ArgumentError") =>
         \A p \in Permutations(1..Len(k_values.entries)) :
              ~ParseEntries(<<>>, Permuted(k_values.entries, p)).ok

C28_Witness ==
    /\ k_pc = "returned"
    /\ Len(k_values.entries) = 2
    /\ HasIdRange(k_values.entries[1]) /\ ~HasIdRange(k_values.entries[2])
    /\ \E s \in DOMAIN k_namespace.val :
         /\ EntriesWithIds(k_values.entries, s) = {1}
         /\ EntriesWholeSession(k_values.entries, s) = {2}
         /\ k_namespace.val[s].none
    /\ \E s \in DOMAIN k_namespace.val : ~k_namespace.val[s].none

----------------------------------------------------------------------------
(* ParseSkips and malformed entries *)

DashCount(e) == Cardinality({i \in 1..Len(e) : e[i] = "-"})

(* a listing with an element of more than one "-", or with a number that   *)
(* is not numeric                                                          *)
MalformedListing(listing) ==
    \E e \in ListingElements(listing) :
        \/ DashCount(e) > 1
        \/ DashCount(e) = 1 /\ ~IsRange(e)
        \/ DashCount(e) = 0 /\ ~IsNumber(e)

MalformedEntry(e) ==
    \/ ColonCount(e) > 1
    \/ /\ ColonCount(e) <= 1
       /\ \/ MalformedListing(SessionPart(e))
          \/ HasIdRange(e) /\ MalformedListing(IdPart(e))

NamespaceUntouched == k_namespace = [set |-> FALSE, val |-> <<>>]

(* C29: an entry with a non-numeric id, with more than one ":" or with     *)
(* more than one "-" in a range element is never gone past: parsing ends   *)
(* at it with ArgumentError, and after an ArgumentError the destination    *)
(* attribute of the namespace is as it was, whatever was collected from    *)
(* the entries before.                                                     *)
C29_MalformedEntryRejected ==
    /\ ~k_values.none =>
         \A j \in 1..Len(k_values.entries) :
            MalformedEntry(k_values.entries[j]) =>
                /\ k_idx <= j
                /\ k_pc # "returned"
                /\ NamespaceUntouched
                /\ (k_idx = j => ~SkipEntry(k_skip_sids, k_values.entries[j]).ok)
    /\ k_pc = "ArgumentError" => NamespaceUntouched

C29_Witness ==
    /\ k_pc = "ArgumentError"
    /\ k_idx = 2
    /\ k_skip_sids # <<>>
    /\ DashCount(k_values.entries[2]) > 1
    /\ NamespaceUntouched

----------------------------------------------------------------------------
(* gallia.utils: split_host_port, join_host_port                           *)

MaxPort == 2            \* ports 1..MaxPort, and the named ones

NoPort == -1            \* None as a port

HighestPort == 65535

Ports == (1..MaxPort) \cup {80, HighestPort}

DefaultPorts == {NoPort, 13400}

Hosts ==
    { <<"e", "c", "u", "1">>,
      <<"E", "c", "u">>,
      <<"1", "0", ".", "0", ".", "0", ".", "1">>,
      <<":", ":", "1">>,
      <<"f", "e", "8", "0", ":", ":", "1">> }

UpperCase == [c \in {"A", "B", "C", "D", "E", "F", "U"} |->
    CASE c = "A" -> "a" [] c = "B" -> "b" [] c = "C" -> "c" [] c = "D" -> "d"
      [] c = "E" -> "e" [] c = "F" -> "f" [] c = "U" -> "u"]

(* str.lower() *)
lower(s) ==
    [i \in 1..Len(s) |-> IF s[i] \in DOMAIN UpperCase THEN UpperCase[s[i]]
                         ELSE s[i]]

DigitChar(d) == CHOOSE c \in DOMAIN DecDigit : DecDigit[c] = d

(* str(port) *)
RECURSIVE str(_)
str(n) ==
    IF n < 10 THEN <<DigitChar(n)>>
    ELSE Append(str(n \div 10), DigitChar(n % 10))

IndexOf(s, ch) ==
    IF Contains(s, ch) THEN CHOOSE i \in 1..Len(s) :
                                s[i] = ch /\ \A j \in 1..(i - 1) : s[j] # ch
    ELSE 0

(* ipaddress.ip_address(text) accepts the text: dotted decimal IPv4 with   *)
(* four octets, or an IPv6 literal of hex groups and colons                *)
IsIPv4(text) ==
    LET parts == Split(text, ".")
    IN /\ Len(parts) = 4
       /\ \A k \in 1..4 :
            /\ IsDecimal(parts[k]) /\ ~HasLeadingZero(parts[k])
            /\ Len(parts[k]) <= 3
            /\ ToNat(parts[k], DecDigit, 10) <= 255

IsIPv6(text) ==
    /\ AllIn(lower(text), DOMAIN HexDigit \cup {":"})
    /\ Cardinality({i \in 1..Len(text) : text[i] = ":"}) >= 2
    /\ \A g \in ElementsOfSeq(Split(text, ":")) : Len(g) <= 4

ip_address(text) ==
    IF IsIPv4(text) \/ IsIPv6(text) THEN Returned(lower(text)) ELSE Raised

(* urlparse("//" + hostport): the netloc and its hostname and port text;   *)
(* hostname is lower-cased, a bracketed host loses its brackets            *)
urlparse(hostport) ==
    LET netloc == hostport
        close == IndexOf(netloc, "]")
        bracketed == netloc # <<>> /\ netloc[1] = "[" /\ close > 0
        rest == IF bracketed THEN SubSeq(netloc, close + 1, Len(netloc))
                ELSE netloc
        colon == IndexOf(rest, ":")
        hostinfo == IF bracketed THEN SubSeq(netloc, 2, close - 1)
                    ELSE IF colon > 0 THEN SubSeq(rest, 1, colon - 1)
                    ELSE rest
        port == IF colon > 0 THEN SubSeq(rest, colon + 1, Len(rest)) ELSE <<>>
    IN [netloc |-> netloc, hostname |-> lower(hostinfo), port_text |-> port]

(* url.port: None, the number, or ValueError *)
url_port(url) ==
    IF url.port_text = <<>> THEN Returned(NoPort)
    ELSE IF ~IsDecimal(url.port_text) THEN Raised
    ELSE IF ToNat(url.port_text, DecDigit, 10) > HighestPort THEN Raised
    ELSE Returned(ToNat(url.port_text, DecDigit, 10))

split_host_port(hostport, default_port) ==
    LET ip == ip_address(hostport)
    IN IF ip.ok THEN Returned([host |-> ip.val, port |-> default_port])
       ELSE LET url == urlparse(hostport)
                host == IF url.hostname # <<>> THEN url.hostname
                        ELSE url.netloc
                port == url_port(url)
            IN IF ~port.ok THEN Raised
               ELSE Returned([host |-> host,
                              port |-> IF port.val # NoPort /\ port.val # 0
                                       THEN port.val ELSE default_port])

(* the port in the text join_host_port makes for a host with a colon *)
PortText(port) == <<"p", "o", "r", "t">>

join_host_port(host, port) ==
    IF Contains(host, ":")
    THEN <<"[">> \o host \o <<"]", ":">> \o PortText(port)
    ELSE host \o <<":">> \o str(port)

(* a hostport text as a user writes it: host, host:port or [v6]:port *)
Written(host, port) ==
    IF port = NoPort THEN host
    ELSE IF Contains(host, ":")
         THEN <<"[">> \o host \o <<"]", ":">> \o str(port)
         ELSE host \o <<":">> \o str(port)

JoinHostPort ==
    /\ h_pc = "start"
    /\ h_text' = join_host_port(h_host, h_port)
    /\ h_pc' = "text"
    /\ UNCHANGED <<h_host, h_port, h_default, h_joined, h_result>>

SplitHostPort ==
    /\ h_pc = "text"
    /\ split_host_port(h_text, h_default).ok
    /\ h_result' = split_host_port(h_text, h_default).val
    /\ h_pc' = "returned"
    /\ UNCHANGED <<h_host, h_port, h_default, h_joined, h_text>>

SplitHostPortRaises ==
    /\ h_pc = "text"
    /\ ~split_host_port(h_text, h_default).ok
    /\ h_pc' = "ValueError"
    /\ UNCHANGED <<h_host, h_port, h_default, h_joined, h_text, h_result>>

InitHost ==
    /\ IdleBut("host")
    /\ h_host \in Hosts
    /\ h_default \in DefaultPorts
    /\ h_result = [host |-> <<>>, port |-> NoPort]
    /\ \/ /\ h_joined = TRUE
          /\ h_port \in Ports
          /\ h_pc = "start"
          /\ h_text = <<>>
       \/ /\ h_joined = FALSE
          /\ h_port \in Ports \cup {NoPort}
          /\ h_pc = "text"
          /\ h_text = Written(h_host, h_port)

HostStep == JoinHostPort \/ SplitHostPort \/ SplitHostPortRaises

NextHost == HostStep /\ UnchangedBut("host")

SpecHost == InitHost /\ [][NextHost]_vars

SplitDone == h_pc \in {"returned", "ValueError"}

(* C30: split_host_port(join_host_port(h, p)) is (h, p) for every host     *)
(* and every port; and split_host_port returns default_port exactly when   *)
(* its input carries no port.                                              *)
C30_HostPortRoundTrip ==
    /\ (SplitDone /\ h_joined) =>
         /\ h_pc = "returned"
         /\ h_result = [host |-> h_host, port |-> h_port]
    /\ (SplitDone /\ ~h_joined) =>
         /\ h_pc = "returned"
         /\ h_result.port = (IF h_port = NoPort THEN h_default ELSE h_port)

====
